---- MODULE Spec2Model ----
(***************************************************************************)
(* Piggyback data lifecycle of cmk/utils/piggyback.py: payload files       *)
(* <piggyback_dir>/<target>/<source>, status files                         *)
(* <piggyback_source_dir>/<source>, the writer store_piggyback_raw_data,   *)
(* the reader get_piggyback_raw_data with the file info inspector, and the *)
(* housekeeping job cleanup_piggyback_files.  Every filesystem call of the *)
(* code is one atomic step, so that processes interleave between calls.    *)
(*                                                                         *)
(* Time is counted in ticks, Res ticks to the second: st_mtime and         *)
(* time.time() are tick values, os.stat(...)[8] is the whole second.  The  *)
(* clock and the timestamps of the files are finer than a tick: nsec is    *)
(* the part that st_mtime, a float, does not hold.                         *)
(***************************************************************************)
EXTENDS Integers, Sequences, FiniteSets, TLC

VARIABLES now, nsec, dirs, payload, source_status, tmp, wr, rd, cl, lastOp, aged

vars == <<now, nsec, dirs, payload, source_status, tmp, wr, rd, cl, lastOp, aged>>

fsvars == <<dirs, payload, source_status, tmp>>

----------------------------------------------------------------------------
(* Bounds of the model *)

\* ticks per second
Res == 2
\* the clock runs from tick 0 to tick MaxTime
MaxTime == 4
\* store_piggyback_raw_data calls per behaviour
MaxStores == 2
\* the clock of the specifications with interleaved processes stops at this tick
MaxRaceTime == 1
\* rules per sequence, where every sequence of a pool of rules is read with
MaxRules == 2

----------------------------------------------------------------------------
(* Host names are character sequences, as the rule expressions match on    *)
(* them                                                                    *)

s1 == <<"s", "1">>
s2 == <<"s", "2">>
t1 == <<"t", "1">>
t2 == <<"t", "2">>

Sources == {s1, s2}
Targets == {t1, t2}

\* bytes
NL == 10
LinesChoices == { << <<1>> >>, << <<1>>, <<2, 3>> >> }

Range(f) == {f[i] : i \in DOMAIN f}

\* all orderings of a finite set, as sequences without repetition
Orderings(S) ==
    {q \in [1..Cardinality(S) -> S] : \A i, j \in 1..Cardinality(S) : q[i] = q[j] => i = j}

\* the mappings target -> lines with the given key set
BatchesOver(ts, lines) == [ts -> lines]

\* the values of the clock within one tick
ClockParts == {0, 1}

\* a file carries the clock value of its last modification: the tick mtime
\* and the part nsec below it
NoFile == [exists |-> FALSE]
PayloadFile(m, n, d) == [exists |-> TRUE, mtime |-> m, nsec |-> n, data |-> d]
StatusFile(m, n) == [exists |-> TRUE, mtime |-> m, nsec |-> n]

\* os.stat(path).st_mtime: the modification time as a float, which holds the tick
st_mtime(f) == f.mtime

\* a variant that gives the file the time of the call
os_utime_current_time(f, mtime) == [f EXCEPT !.mtime = now, !.nsec = 0]

\* os.utime(path, (atime, mtime)) with the floats of a stat: the file gets the
\* tick, the part below it is not written
os_utime(f, mtime) == [f EXCEPT !.mtime = mtime, !.nsec = 0]

\* a variant that gives the modification time as it is
StatSeconds_Untruncated(f) == f.mtime

\* os.stat(path)[8]: the modification time in whole seconds
StatSeconds(f) == f.mtime \div Res

----------------------------------------------------------------------------
(* Time settings: a rule is <<expr, key, value>>; expr is << >> for None   *)
(* or <<e>> for the string e (a host name, or "~" followed by a pattern).  *)
(* The expanded map is a function on pairs <<scope, key>>.                 *)

NoneExpr == << >>

Rule(expr, key, value) == <<expr, key, value>>

\* re.match(pattern, string) for patterns of literal characters and ".":
\* the pattern has to match a prefix of the string
RECURSIVE re_match(_, _)
re_match(pat, str) ==
    IF pat = << >> THEN TRUE
    ELSE IF str = << >> THEN FALSE
    ELSE (pat[1] = "." \/ pat[1] = str[1]) /\ re_match(Tail(pat), Tail(str))

\* a variant that lets a later rule replace the value
setdefault_overwrite(m, k, v) == [x \in DOMAIN m \cup {k} |-> IF x = k THEN v ELSE m[x]]

\* dict.setdefault
setdefault(m, k, v) == IF k \in DOMAIN m THEN m ELSE m @@ (k :> v)

\* a variant that registers a matching pattern under the pattern itself
RegisterRule_RegexOwnScope(m, source_hostnames, piggybacked_hostname, rule) ==
    LET expr == rule[1]
        key == rule[2]
        value == rule[3]
    IN  IF expr = NoneExpr
           \/ expr[1] \in source_hostnames
           \/ expr[1] = piggybacked_hostname
        THEN setdefault(m, <<expr, key>>, value)
        ELSE IF expr[1] # << >> /\ expr[1][1] = "~"
                /\ re_match(Tail(expr[1]), piggybacked_hostname)
        THEN setdefault(m, <<expr, key>>, value)
        ELSE m

\* one iteration of the loop of _TimeSettingsMap.__init__
RegisterRule(m, source_hostnames, piggybacked_hostname, rule) ==
    LET expr == rule[1]
        key == rule[2]
        value == rule[3]
    IN  IF expr = NoneExpr
           \/ expr[1] \in source_hostnames
           \/ expr[1] = piggybacked_hostname
        THEN setdefault(m, <<expr, key>>, value)
        ELSE IF expr[1] # << >> /\ expr[1][1] = "~"
                /\ re_match(Tail(expr[1]), piggybacked_hostname)
        THEN setdefault(m, <<(<<piggybacked_hostname>>), key>>, value)
        ELSE m

RECURSIVE ExpandRules(_, _, _, _)
ExpandRules(m, source_hostnames, piggybacked_hostname, time_settings) ==
    IF time_settings = << >> THEN m
    ELSE ExpandRules(
            RegisterRule(m, source_hostnames, piggybacked_hostname, Head(time_settings)),
            source_hostnames, piggybacked_hostname, Tail(time_settings))

_TimeSettingsMap(source_hostnames, piggybacked_hostname, time_settings) ==
    ExpandRules(<< >>, source_hostnames, piggybacked_hostname, time_settings)

\* << >> stands for the KeyError, <<v>> for the value v
KeyError == << >>

\* a variant that looks the source-scoped value up before the target-scoped one
_match_source_first(m, key, source_hostname, piggybacked_hostname) ==
    IF <<(<<source_hostname>>), key>> \in DOMAIN m
    THEN <<m[<<(<<source_hostname>>), key>>]>>
    ELSE IF <<(<<piggybacked_hostname>>), key>> \in DOMAIN m
    THEN <<m[<<(<<piggybacked_hostname>>), key>>]>>
    ELSE IF <<NoneExpr, key>> \in DOMAIN m
    THEN <<m[<<NoneExpr, key>>]>>
    ELSE KeyError

_match(m, key, source_hostname, piggybacked_hostname) ==
    IF <<(<<piggybacked_hostname>>), key>> \in DOMAIN m
    THEN <<m[<<(<<piggybacked_hostname>>), key>>]>>
    ELSE IF <<(<<source_hostname>>), key>> \in DOMAIN m
    THEN <<m[<<(<<source_hostname>>), key>>]>>
    ELSE IF <<NoneExpr, key>> \in DOMAIN m
    THEN <<m[<<NoneExpr, key>>]>>
    ELSE KeyError

\* a variant that takes 0 when no rule resolves
max_cache_age_default(m, source_hostname, piggybacked_hostname) ==
    LET r == _match(m, "max_cache_age", source_hostname, piggybacked_hostname)
    IN  IF r = KeyError THEN <<0>> ELSE r

\* the KeyError propagates
max_cache_age(m, source_hostname, piggybacked_hostname) ==
    _match(m, "max_cache_age", source_hostname, piggybacked_hostname)

\* << >> stands for None
validity_period(m, source_hostname, piggybacked_hostname) ==
    _match(m, "validity_period", source_hostname, piggybacked_hostname)

validity_state(m, source_hostname, piggybacked_hostname) ==
    LET r == _match(m, "validity_state", source_hostname, piggybacked_hostname)
    IN  IF r = KeyError THEN 0 ELSE r[1]

----------------------------------------------------------------------------
(* File info records.  A message is a sequence of parts, the empty         *)
(* sequence being the empty string.                                        *)

Txt(s) == [txt |-> s]
Host(h) == [host |-> h]
Dur(d) == [dur |-> d]

\* round(): to the nearest whole second, a tie to the even one
round(ticks) ==
    LET q == ticks \div Res
        r == ticks % Res
    IN  IF 2 * r < Res THEN q
        ELSE IF 2 * r > Res THEN q + 1
        ELSE IF q % 2 = 0 THEN q ELSE q + 1

\* str(datetime.timedelta(seconds=round(value))): days, hours, minutes, seconds
_render_time(value) ==
    LET secs == round(value)
    IN  Dur(<<secs \div 86400, (secs % 86400) \div 3600, (secs % 3600) \div 60, secs % 60>>)

ValueError == [raised |-> "ValueError"]

PiggybackFileInfo(source, file_path, valid, message, status) ==
    IF message = << >> THEN ValueError
    ELSE [source |-> source, file_path |-> file_path, valid |-> valid,
          message |-> message, status |-> status]

_get_piggybacked_file_path(source_hostname, piggybacked_hostname) ==
    <<piggybacked_hostname, source_hostname>>

\* a variant that still grants validity when no time is left
_validity_period_message_lt(file_age, period) ==
    IF period = << >> \/ period[1] * Res - file_age < 0
    THEN << >>
    ELSE <<Txt(" (still valid, "), _render_time(period[1] * Res - file_age), Txt(" left)")>>

\* file_age in ticks, validity_period << >> or <<seconds>>
_validity_period_message(file_age, period) ==
    IF period = << >> \/ period[1] * Res - file_age <= 0
    THEN << >>
    ELSE <<Txt(" (still valid, "), _render_time(period[1] * Res - file_age), Txt(" left)")>>

\* a variant that takes a missing status file for a source still sending
_is_piggybacked_host_abandoned_unless_missing(status_stat, piggyback_stat) ==
    IF ~status_stat.exists THEN FALSE
    ELSE IF ~piggyback_stat.exists THEN TRUE
    ELSE StatSeconds(status_stat) > StatSeconds(piggyback_stat)

\* a variant that takes equal whole seconds for abandonment
_is_piggybacked_host_abandoned_ge(status_stat, piggyback_stat) ==
    IF ~status_stat.exists \/ ~piggyback_stat.exists THEN TRUE
    ELSE StatSeconds(status_stat) >= StatSeconds(piggyback_stat)

\* the two stat results, each NoFile when the stat raises FileNotFoundError
_is_piggybacked_host_abandoned(status_stat, piggyback_stat) ==
    IF ~status_stat.exists \/ ~piggyback_stat.exists THEN TRUE
    ELSE StatSeconds(status_stat) > StatSeconds(piggyback_stat)

\* a variant that gives the record of a missing file no message
InfoMissing_NoMessage(S, T) ==
    PiggybackFileInfo(S, _get_piggybacked_file_path(S, T), FALSE, << >>, 0)

InfoMissing(S, T) ==
    PiggybackFileInfo(S, _get_piggybacked_file_path(S, T), FALSE,
                      <<Txt("Piggyback file is missing")>>, 0)

InfoTooOld(S, T, file_age, allowed) ==
    PiggybackFileInfo(S, _get_piggybacked_file_path(S, T), FALSE,
                      <<Txt("Piggyback file too old (age: "), _render_time(file_age),
                        Txt(", allowed: "), _render_time(allowed * Res), Txt(")")>>, 0)

\* a variant that reports validity_state whether or not validity time is left
InfoAbandoned_AlwaysState(S, T, file_age, period, state) ==
    LET valid_msg == _validity_period_message(file_age, period)
    IN  PiggybackFileInfo(S, _get_piggybacked_file_path(S, T), valid_msg # << >>,
                          <<Txt("Piggyback data not updated by source '"), Host(S), Txt("'")>>
                              \o valid_msg,
                          state)

InfoAbandoned(S, T, file_age, period, state) ==
    LET valid_msg == _validity_period_message(file_age, period)
    IN  PiggybackFileInfo(S, _get_piggybacked_file_path(S, T), valid_msg # << >>,
                          <<Txt("Piggyback data not updated by source '"), Host(S), Txt("'")>>
                              \o valid_msg,
                          IF valid_msg # << >> THEN state ELSE 0)

InfoSuccess(S, T) ==
    PiggybackFileInfo(S, _get_piggybacked_file_path(S, T), TRUE,
                      <<Txt("Successfully processed from source '"), Host(S), Txt("'")>>, 0)

\* lines 256-276: the record once the abandonment test has been made
InfoAfterAbandonTest(S, T, file_age, m, abandoned) ==
    IF abandoned
    THEN InfoAbandoned(S, T, file_age, validity_period(m, S, T), validity_state(m, S, T))
    ELSE InfoSuccess(S, T)

----------------------------------------------------------------------------
(* Rule sequences handed to the reader and to the cleanup *)

RulesAge == << Rule(NoneExpr, "max_cache_age", 1) >>

RulesGrace ==
    << Rule(NoneExpr, "max_cache_age", 1), Rule(NoneExpr, "validity_period", 2),
       Rule(NoneExpr, "validity_state", 1) >>

RulesShortGrace ==
    << Rule(NoneExpr, "max_cache_age", 2), Rule(NoneExpr, "validity_period", 1),
       Rule(NoneExpr, "validity_state", 2) >>

RulesStateOnly ==
    << Rule(NoneExpr, "max_cache_age", 2), Rule(NoneExpr, "validity_state", 1) >>

RulesNoAge == << Rule(NoneExpr, "validity_period", 1) >>

RulesPurge == << Rule(NoneExpr, "max_cache_age", 0) >>

RulesScoped ==
    << Rule(<<t1>>, "max_cache_age", 0), Rule(<<s2>>, "max_cache_age", 2),
       Rule(NoneExpr, "max_cache_age", 1), Rule(<<t2>>, "validity_period", 2),
       Rule(<<(<<"~", "t", ".">>)>>, "validity_period", 1), Rule(<<s2>>, "validity_state", 2),
       Rule(<<(<<"~", "t", "2">>)>>, "validity_state", 1) >>

\* max_cache_age 0 and a validity_period for the target t1, max_cache_age 1 for
\* every other target
RulesTarget ==
    << Rule(<<t1>>, "max_cache_age", 0), Rule(NoneExpr, "max_cache_age", 1),
       Rule(<<t1>>, "validity_period", 1) >>

RuleSets == {RulesAge, RulesGrace, RulesShortGrace, RulesStateOnly, RulesNoAge, RulesScoped}

----------------------------------------------------------------------------
(* The processes *)

IdleWriter ==
    [pc |-> "idle", src |-> << >>, batch |-> << >>, todo |-> << >>, paths |-> << >>,
     times |-> 0, ut |-> << >>, skipped |-> {}, calls |-> 0, over |-> {}, later |-> FALSE]

IdleReader ==
    [pc |-> "idle", target |-> << >>, rules |-> << >>, sources |-> << >>, map |-> << >>,
     idx |-> 0, age |-> 0, at |-> 0, stat |-> NoFile, infos |-> << >>, ats |-> << >>, data |-> << >>,
     mode |-> "raw", folders |-> << >>, pairs |-> << >>, checked |-> << >>, result |-> FALSE]

IdleCleaner ==
    [pc |-> "idle", rules |-> << >>, todo |-> << >>, settings |-> << >>, maxage |-> << >>,
     sfiles |-> << >>, fi |-> 0, si |-> 0, log |-> << >>, slog |-> << >>,
     removed |-> << >>, beside |-> {}, dotfiles |-> {}]

\* the sweeps in flight, each with the note that a process of the given kind
\* ("writer" or "sweep") has been running beside it
Beside(kind, except) ==
    [c \in DOMAIN cl |->
        IF cl[c].pc # "idle" /\ c # except
        THEN [cl[c] EXCEPT !.beside = @ \cup {kind}]
        ELSE cl[c]]

AllQuiet ==
    /\ \A w \in DOMAIN wr : wr[w].pc = "idle"
    /\ rd.pc = "idle"
    /\ \A c \in DOMAIN cl : cl[c].pc = "idle"

Tick ==
    /\ now < MaxTime
    /\ now' = now + 1
    /\ nsec' = 0
    /\ UNCHANGED <<fsvars, wr, rd, cl, lastOp, aged>>

\* the clock advances within the tick
ClockPart ==
    /\ nsec + 1 \in ClockParts
    /\ nsec' = nsec + 1
    /\ UNCHANGED <<now, fsvars, wr, rd, cl, lastOp, aged>>

----------------------------------------------------------------------------
(* store_piggyback_raw_data and _store_status_file_of *)

\* sep.join(lines)
RECURSIVE join(_, _)
join(sep, lines) ==
    IF lines = << >> THEN << >>
    ELSE IF Len(lines) = 1 THEN lines[1]
    ELSE lines[1] \o sep \o join(sep, Tail(lines))

\* a variant without the newline after the last line
FileBytes_NoTrailingNewline(lines) == join(<<NL>>, lines)

\* b"%s\n" % b"\n".join(lines)
FileBytes(lines) == join(<<NL>>, lines) \o <<NL>>

\* the record of a completed store, lastOp being the last operation that may
\* have changed the files (a completed store, or a cleanup from its call on);
\* again tells that the operation before it was a store of the same mapping
\* by the same source, before is the status file that this store replaced,
\* over the targets whose payload file it overwrote with other bytes, later
\* tells that at its call the clock was past the mtime of every payload file of
\* the source that the mapping leaves out
StoreDone(source_hostname, piggybacked_raw_data, over, later) ==
    [op |-> "store", src |-> source_hostname, batch |-> piggybacked_raw_data,
     over |-> over, later |-> later,
     again |-> /\ lastOp.op = "store"
               /\ lastOp.src = source_hostname
               /\ lastOp.batch = piggybacked_raw_data,
     before |-> source_status[source_hostname]]

\* cmk.utils.store.save_bytes_to_file: the file is replaced as a whole and
\* carries the time of the write
save_bytes_to_file(data) == PayloadFile(now, nsec, data)

\* cmk.utils.store.load_bytes_from_file: the bytes of the file
load_bytes_from_file(f) == f.data

\* the call: an empty mapping goes on to remove the status file, any other
\* one to the loop over its items, which come in the order todo
store_piggyback_raw_data(w, source_hostname, piggybacked_raw_data, todo) ==
    /\ wr[w].pc = "idle"
    /\ wr[w].calls < MaxStores
    /\ wr' = [wr EXCEPT ![w] =
                [IdleWriter EXCEPT
                    !.pc = IF DOMAIN piggybacked_raw_data = {} THEN "remove_status" ELSE "write",
                    !.src = source_hostname,
                    !.batch = piggybacked_raw_data,
                    !.todo = todo,
                    !.later = \A T \in Targets \ DOMAIN piggybacked_raw_data :
                                payload[T][source_hostname].exists
                                => now > payload[T][source_hostname].mtime,
                    !.calls = wr[w].calls + 1]]
    /\ cl' = Beside("writer", w)
    /\ UNCHANGED <<now, nsec, fsvars, rd, lastOp, aged>>

\* Path.unlink() of the status file, FileNotFoundError suppressed
remove_source_status_file(w) ==
    /\ wr[w].pc = "remove_status"
    /\ source_status' = [source_status EXCEPT ![wr[w].src] = NoFile]
    /\ wr' = [wr EXCEPT ![w].pc = "done"]
    /\ lastOp' = StoreDone(wr[w].src, wr[w].batch, wr[w].over, wr[w].later)
    /\ UNCHANGED <<now, nsec, dirs, payload, tmp, rd, cl, aged>>

\* a variant that writes the bytes to the file of every source in the folder
store_save_bytes_to_file_whole_folder(w) ==
    LET me == wr[w]
        T == Head(me.todo)
    IN  /\ me.pc = "write"
        /\ dirs' = dirs \cup {T}
        /\ payload' = [payload EXCEPT ![T] =
                            [S \in Sources |->
                                IF S = me.src \/ payload[T][S].exists
                                THEN save_bytes_to_file(FileBytes(me.batch[T]))
                                ELSE payload[T][S]]]
        /\ wr' = [wr EXCEPT ![w].todo = Tail(me.todo),
                            ![w].paths = Append(me.paths, T),
                            ![w].over = IF /\ payload[T][me.src].exists
                                           /\ payload[T][me.src].data # FileBytes(me.batch[T])
                                        THEN me.over \cup {T} ELSE me.over,
                            ![w].pc = IF Tail(me.todo) = << >> THEN "tmp" ELSE "write"]
        /\ aged' = {a \in aged : <<a[1], a[2]>> # <<T, me.src>>}
        /\ UNCHANGED <<now, nsec, source_status, tmp, rd, cl, lastOp>>

\* one iteration of the loop over the items: the payload file is replaced as a
\* whole, and what reads said of the file it replaces is forgotten
store_save_bytes_to_file(w) ==
    LET me == wr[w]
        T == Head(me.todo)
    IN  /\ me.pc = "write"
        /\ dirs' = dirs \cup {T}
        /\ payload' = [payload EXCEPT ![T][me.src] = save_bytes_to_file(FileBytes(me.batch[T]))]
        /\ wr' = [wr EXCEPT ![w].todo = Tail(me.todo),
                            ![w].paths = Append(me.paths, T),
                            ![w].over = IF /\ payload[T][me.src].exists
                                           /\ payload[T][me.src].data # FileBytes(me.batch[T])
                                        THEN me.over \cup {T} ELSE me.over,
                            ![w].pc = IF Tail(me.todo) = << >> THEN "tmp" ELSE "write"]
        /\ aged' = {a \in aged : <<a[1], a[2]>> # <<T, me.src>>}
        /\ UNCHANGED <<now, nsec, source_status, tmp, rd, cl, lastOp>>

\* a variant that writes the status file at its final path before it sets the
\* times of the payload files
_store_status_file_of_in_place(w) ==
    /\ wr[w].pc = "tmp"
    /\ tmp' = [tmp EXCEPT ![w] = StatusFile(now, nsec)]
    /\ source_status' = [source_status EXCEPT ![wr[w].src] = StatusFile(now, nsec)]
    /\ wr' = [wr EXCEPT ![w].times = st_mtime(StatusFile(now, nsec)), ![w].ut = wr[w].paths, ![w].pc = "utime"]
    /\ UNCHANGED <<now, nsec, dirs, payload, rd, cl, lastOp, aged>>

\* the temporary file .<source>.new* is created and stat'ed; times is its
\* st_mtime
_store_status_file_of_tmp(w) ==
    /\ wr[w].pc = "tmp"
    /\ tmp' = [tmp EXCEPT ![w] = StatusFile(now, nsec)]
    /\ wr' = [wr EXCEPT ![w].times = st_mtime(StatusFile(now, nsec)), ![w].ut = wr[w].paths, ![w].pc = "utime"]
    /\ UNCHANGED <<now, nsec, dirs, payload, source_status, rd, cl, lastOp, aged>>

\* a variant that leaves the payload files with the time of their writing
_store_status_file_of_utime_skipped(w) ==
    /\ wr[w].pc = "utime"
    /\ wr' = [wr EXCEPT ![w].ut = << >>, ![w].pc = "rename"]
    /\ UNCHANGED <<now, nsec, fsvars, rd, cl, lastOp, aged>>

\* a variant that sets the times of every payload file of the source
_store_status_file_of_utime_all(w) ==
    LET me == wr[w]
    IN  /\ me.pc = "utime"
        /\ payload' = [T \in Targets |->
                        IF payload[T][me.src].exists
                        THEN [payload[T] EXCEPT ![me.src] = os_utime(@, me.times)]
                        ELSE payload[T]]
        /\ wr' = [wr EXCEPT ![w].ut = << >>, ![w].pc = "rename"]
        /\ UNCHANGED <<now, nsec, dirs, source_status, tmp, rd, cl, lastOp, aged>>

\* a variant that lets the FileNotFoundError of os.utime leave the call
_store_status_file_of_utime_raises(w) ==
    LET me == wr[w]
        T == Head(me.ut)
    IN  /\ me.pc = "utime"
        /\ payload' = IF payload[T][me.src].exists
                      THEN [payload EXCEPT ![T][me.src] = os_utime(@, me.times)]
                      ELSE payload
        /\ wr' = IF payload[T][me.src].exists
                 THEN [wr EXCEPT ![w].ut = Tail(me.ut),
                                 ![w].pc = IF Tail(me.ut) = << >> THEN "rename" ELSE "utime"]
                 ELSE [wr EXCEPT ![w].pc = "error"]
        /\ UNCHANGED <<now, nsec, dirs, source_status, tmp, rd, cl, lastOp, aged>>

\* os.utime of one payload file, skipped when the file is gone; skipped are the
\* targets whose file was gone
_store_status_file_of_utime(w) ==
    LET me == wr[w]
        T == Head(me.ut)
    IN  /\ me.pc = "utime"
        /\ payload' = IF payload[T][me.src].exists
                      THEN [payload EXCEPT ![T][me.src] = os_utime(@, me.times)]
                      ELSE payload
        /\ wr' = [wr EXCEPT ![w].ut = Tail(me.ut),
                            ![w].skipped = IF payload[T][me.src].exists THEN @ ELSE @ \cup {T},
                            ![w].pc = IF Tail(me.ut) = << >> THEN "rename" ELSE "utime"]
        /\ UNCHANGED <<now, nsec, dirs, source_status, tmp, rd, cl, lastOp, aged>>

\* os.rename(tmp_path, status_file_path)
_store_status_file_of_rename(w) ==
    /\ wr[w].pc = "rename"
    /\ source_status' = [source_status EXCEPT ![wr[w].src] = tmp[w]]
    /\ tmp' = [tmp EXCEPT ![w] = NoFile]
    /\ wr' = [wr EXCEPT ![w].pc = "done"]
    /\ lastOp' = StoreDone(wr[w].src, wr[w].batch, wr[w].over, wr[w].later)
    /\ UNCHANGED <<now, nsec, dirs, payload, rd, cl, aged>>

\* the call returns
store_return(w) ==
    /\ wr[w].pc = "done"
    /\ wr' = [wr EXCEPT ![w] = [IdleWriter EXCEPT !.calls = wr[w].calls]]
    /\ UNCHANGED <<now, nsec, fsvars, rd, cl, lastOp, aged>>

----------------------------------------------------------------------------
(* get_piggyback_raw_data and the file info inspector *)

\* the empty host name
NoHost == << >>

\* _files_in(piggyback_dir / piggybacked_hostname): the names in the folder, none
\* when the folder is missing
get_source_hostnames(piggybacked_hostname) ==
    IF piggybacked_hostname \in dirs
    THEN {S \in Sources : payload[piggybacked_hostname][S].exists}
    ELSE {}

PiggybackRawDataInfo(info, raw_data) == [info |-> info, raw_data |-> raw_data]

\* the call up to the construction of the expanded settings; listing is the
\* folder's content in the order iterdir() gives it
get_piggyback_raw_data(piggybacked_hostname, time_settings, listing) ==
    /\ rd.pc = "idle"
    /\ IF piggybacked_hostname = NoHost
       THEN /\ listing = << >>
            /\ rd' = [IdleReader EXCEPT !.pc = "done", !.rules = time_settings]
       ELSE /\ listing \in Orderings(get_source_hostnames(piggybacked_hostname))
            /\ rd' = [IdleReader EXCEPT
                        !.pc = IF listing = << >> THEN "done" ELSE "age",
                        !.target = piggybacked_hostname,
                        !.rules = time_settings,
                        !.sources = listing,
                        !.map = _TimeSettingsMap(Range(listing), piggybacked_hostname,
                                                 time_settings),
                        !.idx = 1]
    /\ UNCHANGED <<now, nsec, fsvars, wr, cl, lastOp, aged>>

\* a variant that lets a file pass until twice max_cache_age
FileTooOld_Doubled(file_age, allowed) == file_age > 2 * allowed * Res

\* a variant that turns a file down from max_cache_age on
FileTooOld_AtLimit(file_age, allowed) == file_age >= allowed * Res

\* a variant that compares the age cut to whole seconds
FileTooOld_WholeSeconds(file_age, allowed) == file_age \div Res > allowed

\* line 247: file_age > max_cache_age, the age in ticks and the setting in seconds
FileTooOld(file_age, allowed) == file_age > allowed * Res

\* a variant that leaves the records that are not valid out of the list
WithInfo_ValidOnly(info, at) ==
    IF info = ValueError
    THEN [rd EXCEPT !.pc = "error"]
    ELSE IF ~info.valid
    THEN [rd EXCEPT !.idx = IF rd.idx = Len(rd.sources) THEN 1 ELSE rd.idx + 1,
                    !.pc = IF rd.idx < Len(rd.sources) THEN "age"
                           ELSE IF rd.infos = << >> THEN "done" ELSE "load"]
    ELSE [rd EXCEPT !.infos = Append(@, info),
                    !.ats = Append(@, at),
                    !.idx = IF rd.idx = Len(rd.sources) THEN 1 ELSE rd.idx + 1,
                    !.pc = IF rd.idx = Len(rd.sources) THEN "load" ELSE "age"]

\* the reader with the record of the current source appended; after the last
\* source get_piggyback_raw_data goes on to read the files, the two queries to
\* look at the valid flags
WithInfo(info, at) ==
    IF info = ValueError
    THEN [rd EXCEPT !.pc = "error"]
    ELSE [rd EXCEPT !.infos = Append(@, info),
                    !.ats = Append(@, at),
                    !.idx = IF rd.idx = Len(rd.sources) THEN 1 ELSE rd.idx + 1,
                    !.pc = IF rd.idx < Len(rd.sources) THEN "age"
                           ELSE IF rd.mode = "raw" THEN "load" ELSE "collect"]

\* a variant that resolves max_cache_age before it looks at the file
inspect_file_age_resolves_first ==
    LET S == rd.sources[rd.idx]
        T == rd.target
        f == payload[T][S]
        file_age == now - f.mtime
        allowed == max_cache_age(rd.map, S, T)
    IN  /\ rd.pc = "age"
        /\ rd' = IF allowed = KeyError THEN [rd EXCEPT !.pc = "error"]
                 ELSE IF ~f.exists THEN WithInfo(InfoMissing(S, T), now)
                 ELSE IF FileTooOld(file_age, allowed[1])
                 THEN WithInfo(InfoTooOld(S, T, file_age, allowed[1]), now)
                 ELSE [rd EXCEPT !.pc = "stat_status", !.age = file_age, !.at = now]
        /\ UNCHANGED <<now, nsec, fsvars, wr, cl, lastOp, aged>>

\* lines 236-254: the age of the payload file against max_cache_age; aged holds
\* <<target, source, clock>> for the first time a read under RulesAge has
\* reported the pair too old since its payload file was last written
inspect_file_age ==
    LET S == rd.sources[rd.idx]
        T == rd.target
        f == payload[T][S]
        file_age == now - f.mtime
        allowed == max_cache_age(rd.map, S, T)
    IN  /\ rd.pc = "age"
        /\ rd' = IF ~f.exists THEN WithInfo(InfoMissing(S, T), now)
                 ELSE IF allowed = KeyError THEN [rd EXCEPT !.pc = "error"]
                 ELSE IF FileTooOld(file_age, allowed[1])
                 THEN WithInfo(InfoTooOld(S, T, file_age, allowed[1]), now)
                 ELSE [rd EXCEPT !.pc = "stat_status", !.age = file_age, !.at = now]
        /\ aged' = IF /\ f.exists
                      /\ allowed # KeyError
                      /\ FileTooOld(file_age, allowed[1])
                      /\ rd.rules = RulesAge
                      /\ \A a \in aged : <<a[1], a[2]>> # <<T, S>>
                   THEN aged \cup {<<T, S, now>>}
                   ELSE aged
        /\ UNCHANGED <<now, nsec, fsvars, wr, cl, lastOp>>

\* line 302, os.stat of the status file
inspect_stat_status ==
    LET S == rd.sources[rd.idx]
        T == rd.target
        st == source_status[S]
    IN  /\ rd.pc = "stat_status"
        /\ rd' = IF ~st.exists
                 THEN WithInfo(InfoAfterAbandonTest(S, T, rd.age, rd.map,
                                  _is_piggybacked_host_abandoned(NoFile, NoFile)),
                               rd.at)
                 ELSE [rd EXCEPT !.pc = "stat_payload", !.stat = st]
        /\ UNCHANGED <<now, nsec, fsvars, wr, cl, lastOp, aged>>

\* a variant that takes a payload file of a single line for abandoned
inspect_stat_payload_by_bytes ==
    LET S == rd.sources[rd.idx]
        T == rd.target
    IN  /\ rd.pc = "stat_payload"
        /\ rd' = [WithInfo(InfoAfterAbandonTest(S, T, rd.age, rd.map,
                              \/ _is_piggybacked_host_abandoned(rd.stat, payload[T][S])
                              \/ Len(payload[T][S].data) <= 2),
                           rd.at)
                  EXCEPT !.stat = NoFile, !.age = 0, !.at = 0]
        /\ UNCHANGED <<now, nsec, fsvars, wr, cl, lastOp, aged>>

\* line 302, os.stat of the payload file and the comparison
inspect_stat_payload ==
    LET S == rd.sources[rd.idx]
        T == rd.target
    IN  /\ rd.pc = "stat_payload"
        /\ rd' = [WithInfo(InfoAfterAbandonTest(S, T, rd.age, rd.map,
                              _is_piggybacked_host_abandoned(rd.stat, payload[T][S])),
                           rd.at)
                  EXCEPT !.stat = NoFile, !.age = 0, !.at = 0]
        /\ UNCHANGED <<now, nsec, fsvars, wr, cl, lastOp, aged>>

\* a variant that lets the OSError of the read leave the call
read_raw_data_raises ==
    LET file_info == rd.infos[rd.idx]
        f == payload[rd.target][file_info.source]
    IN  /\ rd.pc = "load"
        /\ rd' = IF ~f.exists THEN [rd EXCEPT !.pc = "error"]
                 ELSE [rd EXCEPT !.data = Append(@, PiggybackRawDataInfo(file_info,
                                                        load_bytes_from_file(f))),
                                 !.idx = rd.idx + 1,
                                 !.pc = IF rd.idx = Len(rd.infos) THEN "done" ELSE "load"]
        /\ UNCHANGED <<now, nsec, fsvars, wr, cl, lastOp, aged>>

\* a variant that leaves the record of the failure the status of the
\* inspector's record
read_raw_data_keeps_status ==
    LET file_info == rd.infos[rd.idx]
        f == payload[rd.target][file_info.source]
        entry ==
            IF f.exists THEN PiggybackRawDataInfo(file_info, load_bytes_from_file(f))
            ELSE PiggybackRawDataInfo(
                    PiggybackFileInfo(file_info.source, file_info.file_path, FALSE,
                        <<Txt("Cannot read piggyback raw data from source '"),
                          Host(file_info.source), Txt("': "), Txt("FileNotFoundError")>>,
                        file_info.status),
                    << >>)
    IN  /\ rd.pc = "load"
        /\ rd' = IF entry.info = ValueError THEN [rd EXCEPT !.pc = "error"]
                 ELSE [rd EXCEPT !.data = Append(@, entry),
                                 !.idx = rd.idx + 1,
                                 !.pc = IF rd.idx = Len(rd.infos) THEN "done" ELSE "load"]
        /\ UNCHANGED <<now, nsec, fsvars, wr, cl, lastOp, aged>>

\* lines 92-117: the bytes of one record's file, or the record of the failure
read_raw_data ==
    LET file_info == rd.infos[rd.idx]
        f == payload[rd.target][file_info.source]
        entry ==
            IF f.exists THEN PiggybackRawDataInfo(file_info, load_bytes_from_file(f))
            ELSE PiggybackRawDataInfo(
                    PiggybackFileInfo(file_info.source, file_info.file_path, FALSE,
                        <<Txt("Cannot read piggyback raw data from source '"),
                          Host(file_info.source), Txt("': "), Txt("FileNotFoundError")>>, 0),
                    << >>)
    IN  /\ rd.pc = "load"
        /\ rd' = IF entry.info = ValueError THEN [rd EXCEPT !.pc = "error"]
                 ELSE [rd EXCEPT !.data = Append(@, entry),
                                 !.idx = rd.idx + 1,
                                 !.pc = IF rd.idx = Len(rd.infos) THEN "done" ELSE "load"]
        /\ UNCHANGED <<now, nsec, fsvars, wr, cl, lastOp, aged>>

\* the call returns its list, or the error leaves it
read_return ==
    /\ rd.pc \in {"done", "error"}
    /\ rd' = IdleReader
    /\ UNCHANGED <<now, nsec, fsvars, wr, cl, lastOp, aged>>

----------------------------------------------------------------------------
(* cleanup_piggyback_files; a sweep is the call of one process c *)

\* the processes that run cleanup_piggyback_files
Cleaners == {"c1", "c2"}

\* the name of the temporary file of writer w for the status file of S
TmpName(S, w) == <<".">> \o S \o <<".", "n", "e", "w">> \o <<w>>

\* the names in piggyback_source_dir
SourceDirNames ==
    {S \in Sources : source_status[S].exists}
        \cup {TmpName(wr[w].src, w) : w \in {x \in DOMAIN tmp : tmp[x].exists}}

\* a variant that lists the names that start with a dot as well
_files_in_all(names) == names

\* _files_in: the names that do not start with "."
_files_in(names) == {n \in names : n[1] # "."}

_get_source_state_files == _files_in(SourceDirNames)

_get_piggybacked_host_folders == _files_in(dirs)

\* the call and the listing of piggyback_dir, folders in the order iterdir()
\* gives; beside are the kinds of processes in flight at the call
cleanup_piggyback_files(c, time_settings, folders) ==
    /\ cl[c].pc = "idle"
    /\ folders \in Orderings(_get_piggybacked_host_folders)
    /\ cl' = [Beside("sweep", c) EXCEPT ![c] =
                [IdleCleaner EXCEPT
                    !.pc = IF folders = << >> THEN "list_status" ELSE "list_sources",
                    !.rules = time_settings,
                    !.todo = folders,
                    !.beside = {"writer" : w \in {x \in DOMAIN wr : wr[x].pc # "idle"}}
                                \cup {"sweep" : d \in {x \in DOMAIN cl :
                                                            x # c /\ cl[x].pc # "idle"}}]]
    /\ lastOp' = [op |-> "cleanup"]
    /\ UNCHANGED <<now, nsec, fsvars, wr, rd, aged>>

\* _get_piggybacked_hosts_settings: the listing of one folder and its settings map
_get_piggybacked_hosts_settings(c, listing) ==
    LET T == Head(cl[c].todo)
    IN  /\ cl[c].pc = "list_sources"
        /\ listing \in Orderings(_files_in(get_source_hostnames(T)))
        /\ cl' = [cl EXCEPT
                    ![c].settings = Append(@, [folder |-> T, sources |-> listing,
                                               map |-> _TimeSettingsMap(Range(listing), T,
                                                                        cl[c].rules)]),
                    ![c].todo = Tail(cl[c].todo),
                    ![c].pc = IF Tail(cl[c].todo) = << >> THEN "list_status"
                              ELSE "list_sources"]
        /\ UNCHANGED <<now, nsec, fsvars, wr, rd, lastOp, aged>>

\* the pairs <<folder, source, map>> in the order the two loops visit them
RECURSIVE SettingsPairs(_)
SettingsPairs(settings) ==
    IF settings = << >> THEN << >>
    ELSE [i \in 1..Len(Head(settings).sources) |->
            <<Head(settings).folder, Head(settings).sources[i], Head(settings).map>>]
         \o SettingsPairs(Tail(settings))

\* a variant that takes the max_cache_age of the pair visited last
RECURSIVE max_cache_age_by_sources_last(_, _)
max_cache_age_by_sources_last(acc, pairs) ==
    IF pairs = << >> THEN acc
    ELSE LET T == Head(pairs)[1]
             S == Head(pairs)[2]
             age == max_cache_age(Head(pairs)[3], S, T)
         IN  IF age = KeyError THEN KeyError
             ELSE IF S \notin DOMAIN acc
             THEN max_cache_age_by_sources_last(acc @@ (S :> age[1]), Tail(pairs))
             ELSE max_cache_age_by_sources_last([acc EXCEPT ![S] = age[1]], Tail(pairs))

\* a variant that takes the least max_cache_age per source
RECURSIVE max_cache_age_by_sources_least(_, _)
max_cache_age_by_sources_least(acc, pairs) ==
    IF pairs = << >> THEN acc
    ELSE LET T == Head(pairs)[1]
             S == Head(pairs)[2]
             age == max_cache_age(Head(pairs)[3], S, T)
         IN  IF age = KeyError THEN KeyError
             ELSE IF S \notin DOMAIN acc
             THEN max_cache_age_by_sources_least(acc @@ (S :> age[1]), Tail(pairs))
             ELSE IF acc[S] >= age[1]
             THEN max_cache_age_by_sources_least([acc EXCEPT ![S] = age[1]], Tail(pairs))
             ELSE max_cache_age_by_sources_least(acc, Tail(pairs))

\* lines 484-494: the greatest max_cache_age per source; KeyError when one pair
\* resolves none
RECURSIVE max_cache_age_by_sources(_, _)
max_cache_age_by_sources(acc, pairs) ==
    IF pairs = << >> THEN acc
    ELSE LET T == Head(pairs)[1]
             S == Head(pairs)[2]
             age == max_cache_age(Head(pairs)[3], S, T)
         IN  IF age = KeyError THEN KeyError
             ELSE IF S \notin DOMAIN acc
             THEN max_cache_age_by_sources(acc @@ (S :> age[1]), Tail(pairs))
             ELSE IF acc[S] <= age[1]
             THEN max_cache_age_by_sources([acc EXCEPT ![S] = age[1]], Tail(pairs))
             ELSE max_cache_age_by_sources(acc, Tail(pairs))

\* the cleaner at the start of the payload pass, or at its end when there is no folder
PayloadPass(c) ==
    IF c.settings = << >> THEN [c EXCEPT !.pc = "done", !.dotfiles = {}]
    ELSE [c EXCEPT !.fi = 1, !.si = 1, !.dotfiles = {},
                   !.pc = IF c.settings[1].sources = << >> THEN "rmdir" ELSE "stat_payload"]

\* the first loop of _cleanup_old_source_status_files and the listing of the
\* status files; dotfiles are the names that the listing passed over, kept
\* for the time of the status pass
_cleanup_old_source_status_files(c, listing) ==
    LET ages == max_cache_age_by_sources([x \in {} |-> 0], SettingsPairs(cl[c].settings))
    IN  /\ cl[c].pc = "list_status"
        /\ IF ages = KeyError /\ SettingsPairs(cl[c].settings) # << >>
           THEN /\ listing = << >>
                /\ cl' = [cl EXCEPT ![c].pc = "error"]
           ELSE /\ listing \in Orderings(_get_source_state_files)
                /\ cl' = [cl EXCEPT ![c] =
                            IF listing = << >>
                            THEN PayloadPass([cl[c] EXCEPT !.maxage = ages])
                            ELSE [cl[c] EXCEPT !.maxage = ages, !.sfiles = listing,
                                               !.dotfiles = SourceDirNames \ Range(listing),
                                               !.pc = "stat_status"]]
        /\ UNCHANGED <<now, nsec, fsvars, wr, rd, lastOp, aged>>

\* the cleaner past the current status file
NextStatusFile(c) ==
    IF Tail(c.sfiles) = << >>
    THEN PayloadPass([c EXCEPT !.sfiles = << >>])
    ELSE [c EXCEPT !.sfiles = Tail(c.sfiles), !.pc = "stat_status"]

\* a variant that removes the status file of a source without payload files
\* once it is older than 0 seconds
StatusFileTooOld_Untracked(maxage, S, file_age) ==
    IF S \in DOMAIN maxage THEN file_age > maxage[S] * Res ELSE file_age > 0

\* lines 502-508: no entry for the source, or the age within its entry, keeps
\* the status file
StatusFileTooOld(maxage, S, file_age) ==
    S \in DOMAIN maxage /\ file_age > maxage[S] * Res

\* lines 496-508: the age of one status file against the retention of its
\* source; slog is what the sweep found for the status files it has stat'ed
cleanup_stat_status(c) ==
    LET S == Head(cl[c].sfiles)
        st == source_status[S]
        file_age == now - st.mtime
        remove == StatusFileTooOld(cl[c].maxage, S, file_age)
        entry == [source |-> S, age |-> file_age, mtime |-> st.mtime, nsec |-> st.nsec,
                  remove |-> remove]
        logged == [cl[c] EXCEPT !.slog = Append(@, entry)]
    IN  /\ cl[c].pc = "stat_status"
        /\ cl' = [cl EXCEPT ![c] =
                    IF ~st.exists THEN NextStatusFile(cl[c])
                    ELSE IF remove THEN [logged EXCEPT !.pc = "unlink_status"]
                    ELSE NextStatusFile(logged)]
        /\ UNCHANGED <<now, nsec, fsvars, wr, rd, lastOp, aged>>

\* line 515: _remove_piggyback_file of the status file
cleanup_unlink_status(c) ==
    /\ cl[c].pc = "unlink_status"
    /\ source_status' = [source_status EXCEPT ![Head(cl[c].sfiles)] = NoFile]
    /\ cl' = [cl EXCEPT ![c] = NextStatusFile(cl[c])]
    /\ UNCHANGED <<now, nsec, dirs, payload, tmp, wr, rd, lastOp, aged>>

\* a variant that deletes a file from the limit of the settings on
StillNeeded_Strict(file_age, allowed, period) ==
    file_age < allowed * Res \/ file_age < period * Res

\* a variant that keeps a file only when it is within both settings
StillNeeded_Both(file_age, allowed, period) ==
    file_age <= allowed * Res /\ file_age <= period * Res

\* line 535: file_age <= max_cache_age or file_age <= validity_period
StillNeeded(file_age, allowed, period) ==
    file_age <= allowed * Res \/ file_age <= period * Res

\* the cleaner past the current source of the current folder
NextPayloadFile(c) ==
    IF c.si = Len(c.settings[c.fi].sources)
    THEN [c EXCEPT !.pc = "rmdir"]
    ELSE [c EXCEPT !.si = c.si + 1, !.pc = "stat_payload"]

\* lines 525-538: the age of one payload file against max_cache_age and
\* validity_period
cleanup_stat_payload(c) ==
    LET T == cl[c].settings[cl[c].fi].folder
        S == cl[c].settings[cl[c].fi].sources[cl[c].si]
        m == cl[c].settings[cl[c].fi].map
        f == payload[T][S]
        file_age == now - f.mtime
        allowed == max_cache_age(m, S, T)
        period == IF validity_period(m, S, T) = << >> THEN 0 ELSE validity_period(m, S, T)[1]
        keep == StillNeeded(file_age, allowed[1], period)
        entry == [folder |-> T, source |-> S, age |-> file_age, keep |-> keep]
    IN  /\ cl[c].pc = "stat_payload"
        /\ cl' = [cl EXCEPT ![c] =
                    IF ~f.exists THEN NextPayloadFile(cl[c])
                    ELSE IF allowed = KeyError THEN [cl[c] EXCEPT !.pc = "error"]
                    ELSE IF keep THEN NextPayloadFile([cl[c] EXCEPT !.log = Append(@, entry)])
                    ELSE [cl[c] EXCEPT !.log = Append(@, entry), !.pc = "unlink_payload"]]
        /\ UNCHANGED <<now, nsec, fsvars, wr, rd, lastOp, aged>>

\* a variant that passes over the file that follows the one it unlinks
cleanup_unlink_payload_skips_next(c) ==
    LET T == cl[c].settings[cl[c].fi].folder
        S == cl[c].settings[cl[c].fi].sources[cl[c].si]
    IN  /\ cl[c].pc = "unlink_payload"
        /\ payload' = [payload EXCEPT ![T][S] = NoFile]
        /\ cl' = [cl EXCEPT ![c] =
                    IF cl[c].si + 1 >= Len(cl[c].settings[cl[c].fi].sources)
                    THEN [cl[c] EXCEPT !.pc = "rmdir"]
                    ELSE [cl[c] EXCEPT !.si = cl[c].si + 2, !.pc = "stat_payload"]]
        /\ UNCHANGED <<now, nsec, dirs, source_status, tmp, wr, rd, lastOp, aged>>

\* line 541: _remove_piggyback_file of the payload file
cleanup_unlink_payload(c) ==
    LET T == cl[c].settings[cl[c].fi].folder
        S == cl[c].settings[cl[c].fi].sources[cl[c].si]
    IN  /\ cl[c].pc = "unlink_payload"
        /\ payload' = [payload EXCEPT ![T][S] = NoFile]
        /\ cl' = [cl EXCEPT ![c] = NextPayloadFile(cl[c])]
        /\ UNCHANGED <<now, nsec, dirs, source_status, tmp, wr, rd, lastOp, aged>>

\* the cleaner past the current folder
NextFolder(c) ==
    IF c.fi = Len(c.settings) THEN [c EXCEPT !.pc = "done"]
    ELSE [c EXCEPT !.fi = c.fi + 1, !.si = 1,
                   !.pc = IF c.settings[c.fi + 1].sources = << >>
                          THEN "rmdir" ELSE "stat_payload"]

\* a variant that passes over every OSError of the rmdir
cleanup_rmdir_any_oserror(c) ==
    LET T == cl[c].settings[cl[c].fi].folder
    IN  /\ cl[c].pc = "rmdir"
        /\ IF T \in dirs /\ get_source_hostnames(T) = {}
           THEN /\ cl' = [cl EXCEPT ![c] = NextFolder([cl[c] EXCEPT !.removed = Append(@, T)])]
                /\ dirs' = dirs \ {T}
           ELSE /\ cl' = [cl EXCEPT ![c] = NextFolder(cl[c])]
                /\ dirs' = dirs
        /\ UNCHANGED <<now, nsec, payload, source_status, tmp, wr, rd, lastOp, aged>>

\* a variant that leaves the folders in place
cleanup_rmdir_never(c) ==
    /\ cl[c].pc = "rmdir"
    /\ cl' = [cl EXCEPT ![c] = NextFolder(cl[c])]
    /\ UNCHANGED <<now, nsec, fsvars, wr, rd, lastOp, aged>>

\* a variant that tries the rmdir of a folder that is not empty again
cleanup_rmdir_retry(c) ==
    LET T == cl[c].settings[cl[c].fi].folder
    IN  /\ cl[c].pc = "rmdir"
        /\ IF T \notin dirs
           THEN /\ cl' = [cl EXCEPT ![c].pc = "error"]
                /\ dirs' = dirs
           ELSE IF get_source_hostnames(T) # {}
           THEN /\ cl' = cl
                /\ dirs' = dirs
           ELSE /\ cl' = [cl EXCEPT ![c] = NextFolder([cl[c] EXCEPT !.removed = Append(@, T)])]
                /\ dirs' = dirs \ {T}
        /\ UNCHANGED <<now, nsec, payload, source_status, tmp, wr, rd, lastOp, aged>>

\* lines 543-553: rmdir of the folder; ENOTEMPTY is passed over, any other
\* OSError leaves the call; removed are the folders logged as removed
cleanup_rmdir(c) ==
    LET T == cl[c].settings[cl[c].fi].folder
    IN  /\ cl[c].pc = "rmdir"
        /\ IF T \notin dirs
           THEN /\ cl' = [cl EXCEPT ![c].pc = "error"]
                /\ dirs' = dirs
           ELSE IF get_source_hostnames(T) # {}
           THEN /\ cl' = [cl EXCEPT ![c] = NextFolder(cl[c])]
                /\ dirs' = dirs
           ELSE /\ cl' = [cl EXCEPT ![c] = NextFolder([cl[c] EXCEPT !.removed = Append(@, T)])]
                /\ dirs' = dirs \ {T}
        /\ UNCHANGED <<now, nsec, payload, source_status, tmp, wr, rd, lastOp, aged>>

\* the call returns, or the error leaves it
cleanup_return(c) ==
    /\ cl[c].pc \in {"done", "error"}
    /\ cl' = [cl EXCEPT ![c] = IdleCleaner]
    /\ UNCHANGED <<now, nsec, fsvars, wr, rd, lastOp, aged>>

----------------------------------------------------------------------------
(* Specifications *)

Init ==
    /\ now = 0
    /\ nsec = 0
    /\ dirs = {}
    /\ payload = [T \in Targets |-> [S \in Sources |-> NoFile]]
    /\ source_status = [S \in Sources |-> NoFile]
    /\ tmp = [w \in {"w1"} |-> NoFile]
    /\ wr = [w \in {"w1"} |-> IdleWriter]
    /\ rd = IdleReader
    /\ cl = [c \in Cleaners |-> IdleCleaner]
    /\ lastOp = [op |-> "none"]
    /\ aged = {}

StoreCall(srcs, lines) ==
    \E w \in DOMAIN wr, S \in srcs, ts \in SUBSET Targets :
        \E batch \in BatchesOver(ts, lines), todo \in Orderings(ts) :
            store_piggyback_raw_data(w, S, batch, todo)

StoreStep ==
    \E w \in DOMAIN wr :
        \/ remove_source_status_file(w)
        \/ store_save_bytes_to_file(w)
        \/ _store_status_file_of_tmp(w)
        \/ _store_status_file_of_utime(w)
        \/ _store_status_file_of_rename(w)
        \/ store_return(w)

ReadCall(rulesets) ==
    \E T \in Targets \cup {NoHost}, rules \in rulesets,
       listing \in UNION {Orderings(F) : F \in SUBSET Sources} :
        get_piggyback_raw_data(T, rules, listing)

CleanCall(cs, rulesets) ==
    \E c \in cs, rules \in rulesets, folders \in UNION {Orderings(F) : F \in SUBSET Targets} :
        cleanup_piggyback_files(c, rules, folders)

CleanStep ==
    \E c \in Cleaners :
        \/ \E listing \in UNION {Orderings(F) : F \in SUBSET Sources} :
                _get_piggybacked_hosts_settings(c, listing)
        \/ \E listing \in Orderings(_get_source_state_files) \cup {<< >>} :
                _cleanup_old_source_status_files(c, listing)
        \/ cleanup_stat_status(c)
        \/ cleanup_unlink_status(c)
        \/ cleanup_stat_payload(c)
        \/ cleanup_unlink_payload(c)
        \/ cleanup_rmdir(c)
        \/ cleanup_return(c)

ReadStep ==
    \/ inspect_file_age
    \/ inspect_stat_status
    \/ inspect_stat_payload
    \/ read_raw_data
    \/ read_return

\* one operation at a time: a call starts when no other is in flight
NextSeq ==
    \/ Tick
    \/ AllQuiet /\ StoreCall({s1}, LinesChoices)
    \/ AllQuiet /\ ReadCall(RuleSets)
    \/ AllQuiet /\ CleanCall({"c1"}, RuleSets)
    \/ StoreStep
    \/ ReadStep
    \/ CleanStep

SpecSeq == Init /\ [][NextSeq]_vars

\* the writer and the reader interleave between their filesystem calls
NextConc ==
    \/ Tick
    \/ StoreCall({s1}, {<< <<1>> >>})
    \/ ReadCall({RulesGrace})
    \/ StoreStep
    \/ ReadStep

SpecConc == Init /\ [][NextConc]_vars

\* a store whose mapping holds targets of the given set only
StoreCallTo(srcs, targets, lines) ==
    \E w \in DOMAIN wr, S \in srcs, ts \in SUBSET targets :
        \E batch \in BatchesOver(ts, lines), todo \in Orderings(ts) :
            store_piggyback_raw_data(w, S, batch, todo)

WritersIdle == \A w \in DOMAIN wr : wr[w].pc = "idle"

\* a read and a sweep interleave between their filesystem calls; the two
\* sources store while nothing else is in flight
NextRead ==
    \/ now < MaxRaceTime /\ Tick
    \/ AllQuiet /\ StoreCallTo(Sources, {t1}, {<< <<1>> >>})
    \/ WritersIdle /\ ReadCall({RulesNoAge, RulesGrace, RulesShortGrace, RulesPurge})
    \/ WritersIdle /\ CleanCall({"c1"}, {RulesPurge})
    \/ StoreStep
    \/ ReadStep
    \/ CleanStep

SpecRead == Init /\ [][NextRead]_vars

\* the writers and sweeps in flight
InFlight ==
    {w \in DOMAIN wr : wr[w].pc # "idle"} \cup {c \in DOMAIN cl : cl[c].pc # "idle"}

\* two sweeps and a writer, of which any two interleave between their
\* filesystem calls
NextSweep ==
    \/ now < MaxRaceTime /\ Tick
    \/ Cardinality(InFlight) <= 1 /\ StoreCallTo({s1}, Targets, {<< <<1>> >>})
    \/ Cardinality(InFlight) <= 1 /\ CleanCall(Cleaners, {RulesPurge})
    \/ StoreStep
    \/ CleanStep

SpecSweep == Init /\ [][NextSweep]_vars

Spec == SpecSeq

----------------------------------------------------------------------------
(* The records of the reader against the files they were made from.  With   *)
(* one operation at a time the files do not change while a read is in      *)
(* flight, so a record is compared with the files of the current state and *)
(* the clock value ats[i] of its age computation.                          *)

InfoIndexes == 1..Len(rd.infos)

InfoSource(i) == rd.infos[i].source

InfoPayload(i) == payload[rd.target][InfoSource(i)]

InfoStatus(i) == source_status[InfoSource(i)]

InfoAge(i) == rd.ats[i] - InfoPayload(i).mtime

InfoMaxCacheAge(i) == max_cache_age(rd.map, InfoSource(i), rd.target)

InfoValidityPeriod(i) == validity_period(rd.map, InfoSource(i), rd.target)

InfoValidityState(i) == validity_state(rd.map, InfoSource(i), rd.target)

WithinMaxCacheAge(i) ==
    /\ InfoPayload(i).exists
    /\ InfoMaxCacheAge(i) # KeyError
    /\ InfoAge(i) <= InfoMaxCacheAge(i)[1] * Res

TookSuccessBranch(i) ==
    rd.infos[i].message
        = <<Txt("Successfully processed from source '"), Host(InfoSource(i)), Txt("'")>>

TookAbandonedBranch(i) ==
    rd.infos[i].message[1] = Txt("Piggyback data not updated by source '")

\* C1: a payload file within max_cache_age whose source has a status file that
\* is not newer than it is reported valid with status 0 and the message that
\* names the source
C1_FreshPairIsValid ==
    \A i \in InfoIndexes :
        (/\ WithinMaxCacheAge(i)
         /\ InfoStatus(i).exists
         /\ InfoStatus(i).mtime <= InfoPayload(i).mtime)
        => /\ rd.infos[i].valid
           /\ rd.infos[i].status = 0
           /\ TookSuccessBranch(i)

C1_Witness ==
    \E i \in InfoIndexes :
        /\ WithinMaxCacheAge(i)
        /\ InfoAge(i) > 0
        /\ InfoStatus(i).exists
        /\ InfoStatus(i).mtime <= InfoPayload(i).mtime
        /\ rd.infos[i].valid

\* C2: a payload file older than max_cache_age is reported invalid with status
\* 0, whatever the status file, validity_period and validity_state are
C2_TooOldIsInvalid ==
    \A i \in InfoIndexes :
        (/\ InfoPayload(i).exists
         /\ InfoMaxCacheAge(i) # KeyError
         /\ InfoAge(i) > InfoMaxCacheAge(i)[1] * Res)
        => /\ ~rd.infos[i].valid
           /\ rd.infos[i].status = 0

\* too old, but abandoned within a configured validity period and with a
\* validity state other than 0
C2_Witness ==
    \E i \in InfoIndexes :
        /\ InfoPayload(i).exists
        /\ InfoMaxCacheAge(i) # KeyError
        /\ InfoAge(i) > InfoMaxCacheAge(i)[1] * Res
        /\ ~InfoStatus(i).exists
        /\ InfoValidityPeriod(i) # << >>
        /\ InfoAge(i) < InfoValidityPeriod(i)[1] * Res
        /\ InfoValidityState(i) # 0
        /\ ~rd.infos[i].valid

\* the status file is missing or newer than the payload file
StatusMissingOrNewer(i) ==
    /\ InfoPayload(i).exists
    /\ \/ ~InfoStatus(i).exists
       \/ InfoStatus(i).mtime > InfoPayload(i).mtime

\* the status file is missing or its whole second is later than the payload file's
StatusMissingOrSecondsNewer(i) ==
    /\ InfoPayload(i).exists
    /\ \/ ~InfoStatus(i).exists
       \/ StatSeconds(InfoStatus(i)) > StatSeconds(InfoPayload(i))

\* the outcome C3 states for a pair with validity_period P > 0
GraceOutcome(i) ==
    /\ InfoAge(i) < InfoValidityPeriod(i)[1] * Res
        => /\ rd.infos[i].valid
           /\ rd.infos[i].status = InfoValidityState(i)
    /\ InfoAge(i) >= InfoValidityPeriod(i)[1] * Res
        => /\ ~rd.infos[i].valid
           /\ rd.infos[i].status = 0

ReadsLastStore(i) ==
    /\ lastOp.op = "store"
    /\ lastOp.src = InfoSource(i)
    /\ rd.target \in DOMAIN lastOp.batch

\* C5: a read that follows a store of a non-empty mapping reports every pair
\* of the mapping, and reports it valid while its age is within max_cache_age;
\* after a second store of the same mapping the status file is not older than
\* the one the second store replaced
C5_StoreTwice ==
    /\ \A i \in InfoIndexes :
        ReadsLastStore(i)
        => /\ InfoPayload(i).exists
           /\ WithinMaxCacheAge(i) => rd.infos[i].valid /\ TookSuccessBranch(i)
    /\ (rd.pc \in {"load", "done"} /\ lastOp.op = "store" /\ rd.target \in DOMAIN lastOp.batch)
        => \E i \in InfoIndexes : InfoSource(i) = lastOp.src
    /\ (lastOp.op = "store" /\ lastOp.batch # << >>)
        => /\ source_status[lastOp.src].exists
           /\ (lastOp.again /\ lastOp.before.exists)
                => source_status[lastOp.src].mtime >= lastOp.before.mtime

\* the second of two stores of the same mapping, made later than the first,
\* has been read and reported valid
C5_Witness ==
    \E i \in InfoIndexes :
        /\ ReadsLastStore(i)
        /\ lastOp.again
        /\ lastOp.before.exists
        /\ source_status[lastOp.src].mtime > lastOp.before.mtime
        /\ Cardinality(DOMAIN lastOp.batch) = 2
        /\ rd.infos[i].valid

\* a store by source S has written the payload file of target T and has not
\* yet put its status file in place
InStoreWindow(S, T) ==
    \E w \in DOMAIN wr :
        /\ wr[w].src = S
        /\ wr[w].pc \in {"write", "tmp", "utime", "rename"}
        /\ T \in Range(wr[w].paths)

\* C6: between the writing of the payload file of (S, T) and the return of
\* the store the inspector does not take the abandoned branch for (S, T),
\* whatever the status file of S was before the store
C6_NeverAbandonedInWindow ==
    [][(/\ Len(rd'.infos) = Len(rd.infos) + 1
        /\ InStoreWindow(rd'.infos[Len(rd'.infos)].source, rd.target))
       => rd'.infos[Len(rd'.infos)].message[1] # Txt("Piggyback data not updated by source '")]_vars

----------------------------------------------------------------------------
(* The decisions of the payload pass of a cleanup, cl.log, against the     *)
(* files                                                                   *)

LogIndexes(c) == 1..Len(cl[c].log)

\* the settings map the sweep holds for the folder of log entry k
LogMap(c, k) ==
    (CHOOSE x \in Range(cl[c].settings) : x.folder = cl[c].log[k].folder).map

LogMaxCacheAge(c, k) ==
    max_cache_age(LogMap(c, k), cl[c].log[k].source, cl[c].log[k].folder)

\* an unconfigured validity_period counts as 0
LogValidityPeriod(c, k) ==
    LET p == validity_period(LogMap(c, k), cl[c].log[k].source, cl[c].log[k].folder)
    IN  IF p = << >> THEN 0 ELSE p[1]

LogWithinRetention(c, k) ==
    \/ cl[c].log[k].age <= LogMaxCacheAge(c, k)[1] * Res
    \/ cl[c].log[k].age <= LogValidityPeriod(c, k) * Res

\* the sweep is about to unlink the file of log entry k
LogUnlinkPending(c, k) == k = Len(cl[c].log) /\ cl[c].pc = "unlink_payload"

LogFile(c, k) == payload[cl[c].log[k].folder][cl[c].log[k].source]

----------------------------------------------------------------------------
(* The entries of the reader, rd.data, against the lines last stored *)

\* every line followed by a newline; the newline alone when there is no line
RECURSIVE NewlineTerminated(_)
NewlineTerminated(lines) ==
    IF lines = << >> THEN << >>
    ELSE lines[1] \o <<NL>> \o NewlineTerminated(Tail(lines))

JoinedWithTrailingNewline(lines) ==
    IF lines = << >> THEN <<NL>> ELSE NewlineTerminated(lines)

\* C8: the read that follows a store of {T: lines} by S returns for S the
\* lines joined by newlines and one trailing newline, and nothing of what an
\* earlier store had written
C8_RoundTrip ==
    /\ \A j \in 1..Len(rd.data) :
        (/\ lastOp.op = "store"
         /\ lastOp.src = rd.data[j].info.source
         /\ rd.target \in DOMAIN lastOp.batch)
        => rd.data[j].raw_data = JoinedWithTrailingNewline(lastOp.batch[rd.target])
    /\ (rd.pc = "done" /\ lastOp.op = "store" /\ rd.target \in DOMAIN lastOp.batch)
        => \E j \in 1..Len(rd.data) : rd.data[j].info.source = lastOp.src

\* the store that was read overwrote other bytes with several lines
C8_Witness ==
    /\ rd.pc = "done"
    /\ lastOp.op = "store"
    /\ rd.target \in lastOp.over
    /\ \E j \in 1..Len(rd.data) :
        /\ rd.data[j].info.source = lastOp.src
        /\ rd.data[j].info.valid
        /\ Len(lastOp.batch[rd.target]) = 2
        /\ rd.data[j].raw_data = <<1, NL, 2, 3, NL>>

----------------------------------------------------------------------------
(* Stores that leave a target out *)

\* the last operation is the store of an empty mapping by the source of record i
ReadsAfterEmptyStore(i) ==
    /\ lastOp.op = "store"
    /\ lastOp.batch = << >>
    /\ lastOp.src = InfoSource(i)

\* the step of a store of an empty mapping
EmptyStoreStep(w) == wr[w].pc = "remove_status" /\ wr'[w].pc # "remove_status"

\* C9: the store of an empty mapping ends without error with the status file of
\* the source removed and every payload file in place, and the reads that
\* follow take the abandoned branch for the payload files of the source that
\* are within max_cache_age
C9_EmptyStore ==
    /\ [][\A w \in DOMAIN wr :
            EmptyStoreStep(w)
            => /\ wr'[w].pc = "done"
               /\ ~source_status'[wr[w].src].exists
               /\ payload' = payload
               /\ dirs' = dirs]_vars
    /\ []((lastOp.op = "store" /\ lastOp.batch = << >>)
            => ~source_status[lastOp.src].exists)
    /\ [](\A i \in InfoIndexes :
            (ReadsAfterEmptyStore(i) /\ WithinMaxCacheAge(i)) => TookAbandonedBranch(i))

\* the empty store removed a status file, and the payload delivered before it
\* has been read
C9_Witness ==
    \E i \in InfoIndexes :
        /\ ReadsAfterEmptyStore(i)
        /\ lastOp.before.exists
        /\ WithinMaxCacheAge(i)
        /\ StatSeconds(lastOp.before) = StatSeconds(InfoPayload(i))
        /\ TookAbandonedBranch(i)

\* the last operation is the store of a non-empty mapping without the reader's
\* target, by the source of record i, called when the clock was past the mtime
\* of the payload files it leaves out
ReadsLeftOutTarget(i) ==
    /\ lastOp.op = "store"
    /\ lastOp.batch # << >>
    /\ lastOp.src = InfoSource(i)
    /\ rd.target \notin DOMAIN lastOp.batch
    /\ lastOp.later

StoreLeavesOthers ==
    \A w \in DOMAIN wr :
        (wr[w].pc \notin {"idle", "done"})
        => \A T \in Targets \ DOMAIN wr[w].batch :
            payload'[T][wr[w].src] = payload[T][wr[w].src]

----------------------------------------------------------------------------
(* The scenarios of the rule sets RulesGrace and RulesAge; the settings are *)
(* those of the scenarios scaled to the clock of the model: max_cache_age  *)
(* 1, validity_period 2, validity_state 1                                  *)

\* record i is read under RulesGrace after the source stored a non-empty
\* mapping without the reader's target
GraceRead(i) ==
    /\ rd.rules = RulesGrace
    /\ ReadsLeftOutTarget(i)
    /\ InfoPayload(i).exists
    /\ InfoStatus(i).exists

\* the status file was updated more than max_cache_age after the delivery
StatusUpdatedPastMaxCacheAge(i) ==
    InfoStatus(i).mtime - InfoPayload(i).mtime > InfoMaxCacheAge(i)[1] * Res

\* C11 as stated: once the status file has been updated past max_cache_age
\* without a payload for the target, the entry is valid with status 1 while the
\* payload age does not exceed validity_period, and invalid with status 0 after
C11_AsStated ==
    \A i \in InfoIndexes :
        (GraceRead(i) /\ StatusUpdatedPastMaxCacheAge(i))
        => /\ InfoAge(i) <= InfoValidityPeriod(i)[1] * Res
                => rd.infos[i].valid /\ rd.infos[i].status = 1
           /\ InfoAge(i) > InfoValidityPeriod(i)[1] * Res
                => ~rd.infos[i].valid /\ rd.infos[i].status = 0

\* C11 amended: once the status file has been updated past max_cache_age the
\* entry is invalid with status 0 and reported too old; the entry is valid with
\* status 1 only when the status file was updated in a later whole second and
\* the payload age is still within max_cache_age
C11_GraceEndsAtMaxCacheAge ==
    \A i \in InfoIndexes :
        GraceRead(i)
        => /\ StatusUpdatedPastMaxCacheAge(i)
                => /\ ~rd.infos[i].valid
                   /\ rd.infos[i].status = 0
                   /\ rd.infos[i].message[1] = Txt("Piggyback file too old (age: ")
           /\ (rd.infos[i].valid /\ rd.infos[i].status = 1)
                <=> /\ WithinMaxCacheAge(i)
                    /\ StatSeconds(InfoStatus(i)) > StatSeconds(InfoPayload(i))

\* the entry is read within validity_period after a status update past
\* max_cache_age
C11_Witness ==
    \E i \in InfoIndexes :
        /\ GraceRead(i)
        /\ StatusUpdatedPastMaxCacheAge(i)
        /\ InfoAge(i) <= InfoValidityPeriod(i)[1] * Res
        /\ ~rd.infos[i].valid

\* the clock values at which a read under RulesAge first reported the pair of
\* record i too old, the payload file not having been written since
ReportedTooOldAt(i) == {a[3] : a \in {x \in aged : <<x[1], x[2]>> = <<rd.target, InfoSource(i)>>}}

\* C12: under the single global rule max_cache_age = M a delivered pair that
\* nothing has written since is read valid up to age M and invalid with status
\* 0 past it, and after a read has reported it too old no read reports it valid
\* until the source writes the payload file again
C12_MaxCacheAgeOnly ==
    \A i \in InfoIndexes :
        rd.rules = RulesAge
        => /\ (ReadsLastStore(i) /\ InfoPayload(i).exists)
                => /\ InfoAge(i) <= InfoMaxCacheAge(i)[1] * Res => rd.infos[i].valid
                   /\ InfoAge(i) > InfoMaxCacheAge(i)[1] * Res
                        => ~rd.infos[i].valid /\ rd.infos[i].status = 0
           /\ ReportedTooOldAt(i) # {} => ~rd.infos[i].valid

\* a read later than the one that first reported the pair too old
C12_Witness ==
    \E i \in InfoIndexes :
        /\ rd.rules = RulesAge
        /\ ReadsLastStore(i)
        /\ \E at \in ReportedTooOldAt(i) : rd.ats[i] > at
        /\ ~rd.infos[i].valid

----------------------------------------------------------------------------
(* The reader while a sweep removes files *)

\* the sources of a list of records or entries, in its order
SourcesOf(records) == [i \in 1..Len(records) |-> records[i].source]

EntryInfos(data) == [j \in 1..Len(data) |-> data[j].info]

\* the step that reads the bytes of record j
ReadsEntry(j) == rd.pc = "load" /\ rd.idx = j /\ rd' # rd

\* C13: when the payload file of a record is gone at the read of its bytes the
\* entry is invalid with status 0, no bytes and a message, no error leaves the
\* call, and the entries made before it stay as they are; the entry of a file
\* that is there carries the record of the inspector and the bytes of the file
C13_VanishedBeforeRead ==
    [][\A j \in 1..Len(rd.infos) :
        ReadsEntry(j)
        => LET f == payload[rd.target][rd.infos[j].source]
               entry == rd'.data[j]
           IN  /\ rd'.pc # "error"
               /\ Len(rd'.data) = j
               /\ SubSeq(rd'.data, 1, j - 1) = rd.data
               /\ rd'.infos = rd.infos
               /\ IF f.exists
                  THEN entry = PiggybackRawDataInfo(rd.infos[j], f.data)
                  ELSE /\ entry.info.source = rd.infos[j].source
                       /\ entry.info.file_path = rd.infos[j].file_path
                       /\ ~entry.info.valid
                       /\ entry.info.status = 0
                       /\ entry.info.message # << >>
                       /\ entry.raw_data = << >>]_vars

\* a file that the inspector found valid was gone at the read, and the entry
\* of the other source of the target came back valid with its bytes
C13_Witness ==
    /\ rd.pc = "done"
    /\ Len(rd.data) = 2
    /\ \E j, k \in 1..2 :
        /\ rd.infos[j].valid
        /\ ~rd.data[j].info.valid
        /\ rd.data[j].info.message[1] = Txt("Cannot read piggyback raw data from source '")
        /\ rd.data[j].raw_data = << >>
        /\ rd.data[k].info.valid
        /\ rd.data[k].raw_data = <<1, NL>>

\* C14: the sources listed at the call are the files of the target's folder,
\* none when the folder is missing; the inspector makes one record per listed
\* source and the call returns one entry per record, in the order of the
\* listing, valid or not
C14_OneRecordPerSource ==
    /\ [][(rd.pc = "idle" /\ rd'.pc # "idle" /\ rd'.target # NoHost)
            => /\ Range(rd'.sources) = get_source_hostnames(rd'.target)
               /\ Len(rd'.sources) = Cardinality(get_source_hostnames(rd'.target))
               /\ rd'.target \notin dirs => rd'.pc = "done" /\ rd'.data = << >>]_vars
    /\ [](rd.pc \in {"load", "done"} => SourcesOf(rd.infos) = rd.sources)
    /\ [](rd.pc = "done" => SourcesOf(EntryInfos(rd.data)) = rd.sources)

\* two sources, one record valid and one not
C14_Witness ==
    /\ rd.pc = "done"
    /\ Len(rd.data) = 2
    /\ rd.sources[1] # rd.sources[2]
    /\ \E i, k \in 1..2 : rd.infos[i].valid /\ ~rd.infos[k].valid

\* the record of a missing payload file
IsInfoMissing(info, S, T) ==
    /\ info.source = S
    /\ info.file_path = _get_piggybacked_file_path(S, T)
    /\ ~info.valid
    /\ info.status = 0
    /\ info.message = <<Txt("Piggyback file is missing")>>

\* C15: when the payload file of a listed source is not there at its
\* inspection the record is the one of the missing file, and no error leaves
\* the inspection whatever the rules are
C15_MissingAtInspection ==
    [][(/\ rd.pc = "age"
        /\ rd' # rd
        /\ ~payload[rd.target][rd.sources[rd.idx]].exists)
       => /\ rd'.pc # "error"
          /\ Len(rd'.infos) = Len(rd.infos) + 1
          /\ IsInfoMissing(rd'.infos[Len(rd'.infos)], rd.sources[rd.idx], rd.target)]_vars

\* a missing file was reported under rules that resolve no max_cache_age
C15_Witness ==
    /\ rd.rules = RulesNoAge
    /\ rd.pc \in {"load", "done"}
    /\ \E i \in InfoIndexes : IsInfoMissing(rd.infos[i], rd.sources[i], rd.target)

----------------------------------------------------------------------------
(* Sweeps beside each other and beside a store *)

\* C16: a sweep whose rules resolve max_cache_age ends with no error, whatever
\* another process removes of the files and folders it has listed
C16_SweepsTolerateVanishing == \A c \in Cleaners : cl[c].pc # "error"

\* the folder sweep c is at
FolderAt(c) == cl[c].settings[cl[c].fi].folder

\* sweep c takes a step of the payload pass
PayloadPassStep(c) ==
    /\ cl[c].pc \in {"stat_payload", "unlink_payload", "rmdir"}
    /\ cl'[c].pc # cl[c].pc \/ cl'[c].si # cl[c].si \/ cl'[c].fi # cl[c].fi

EmptyFolders == {T \in dirs : get_source_hostnames(T) = {}}

\* C18 as stated: a sweep that no store ran beside ends with no empty folder
\* left
C18_AsStated ==
    \A c \in Cleaners :
        (cl[c].pc = "done" /\ "writer" \notin cl[c].beside) => EmptyFolders = {}

\* C18 amended: a sweep that neither a store nor another sweep ran beside ends
\* with no empty folder left; of the folders it listed, those in which it kept
\* a file are there and the others are removed
C18_NoEmptyFolderLeft ==
    \A c \in Cleaners :
        (cl[c].pc = "done" /\ cl[c].beside = {})
        => /\ EmptyFolders = {}
           /\ \A j \in 1..Len(cl[c].settings) :
                LET T == cl[c].settings[j].folder
                    kept == \E k \in LogIndexes(c) : cl[c].log[k].folder = T /\ cl[c].log[k].keep
                IN  /\ kept <=> T \in dirs
                    /\ ~kept <=> T \in Range(cl[c].removed)

\* one sweep has emptied and removed a folder and has kept another
C18_Witness ==
    \E c \in Cleaners :
        /\ cl[c].pc = "done"
        /\ cl[c].beside = {}
        /\ \E k \in LogIndexes(c) :
            ~cl[c].log[k].keep /\ cl[c].log[k].folder \in Range(cl[c].removed)
        /\ \E k \in LogIndexes(c) : cl[c].log[k].keep /\ cl[c].log[k].folder \in dirs

----------------------------------------------------------------------------
(* The status pass of a sweep, cl[c].slog, against the folders it listed *)

SlogIndexes(c) == 1..Len(cl[c].slog)

\* the settings of the folders in which sweep c listed a payload file of S
ListedWith(c, S) == {x \in Range(cl[c].settings) : S \in Range(x.sources)}

\* the max_cache_age values that resolve for S with those folders
ListedMaxCacheAges(c, S) == {max_cache_age(x.map, S, x.folder)[1] : x \in ListedWith(c, S)}

\* the status file of slog entry k is older than every one of them
PastEveryMaxCacheAge(c, k) ==
    \A a \in ListedMaxCacheAges(c, cl[c].slog[k].source) : cl[c].slog[k].age > a * Res

\* the sweep is about to unlink the status file of slog entry k
SlogUnlinkPending(c, k) == k = Len(cl[c].slog) /\ cl[c].pc = "unlink_status"

\* the status file of slog entry k is as the sweep found it
SlogFileInPlace(c, k) ==
    source_status[cl[c].slog[k].source] = StatusFile(cl[c].slog[k].mtime, cl[c].slog[k].nsec)

----------------------------------------------------------------------------
(* The docstring of cleanup_piggyback_files against the two passes *)

\* the sweep deletes the payload file of log entry k
LogDeletes(c, k) == ~cl[c].log[k].keep

\* C21: a sweep deletes a payload file exactly when its age exceeds the
\* max_cache_age that resolves for its pair, and a status file whose source it
\* listed exactly when its age exceeds the max_cache_age of the source
C21_DeletedIffPastMaxCacheAge ==
    \A c \in Cleaners :
        /\ \A k \in LogIndexes(c) :
            LogDeletes(c, k) <=> cl[c].log[k].age > LogMaxCacheAge(c, k)[1] * Res
        /\ \A k \in SlogIndexes(c) :
            ListedWith(c, cl[c].slog[k].source) # {}
            => (cl[c].slog[k].remove <=> PastEveryMaxCacheAge(c, k))

----------------------------------------------------------------------------
(* The resolver: the settings map of a read against the rule sequence it   *)
(* was built from                                                         *)

Keys == {"max_cache_age", "validity_period", "validity_state"}

\* the scope expressions of the rules a read is called with: none, the two
\* sources, the target t1 by its name and by a pattern
LookupScopes == {NoneExpr, <<s1>>, <<s2>>, <<t1>>, <<(<<"~", "t", ".">>)>>}

LookupRules == {Rule(e, "max_cache_age", v) : e \in LookupScopes, v \in {0, 1}}

\* a global, a source-scoped and a target-scoped rule of one key
ThreeScopes ==
    {Rule(NoneExpr, "max_cache_age", 1), Rule(<<s1>>, "max_cache_age", 1),
     Rule(<<t1>>, "max_cache_age", 0)}

\* a rule scoped to s2 before two global rules of the same key
TwiceGlobal ==
    << Rule(<<s2>>, "max_cache_age", 0), Rule(NoneExpr, "max_cache_age", 1),
       Rule(NoneExpr, "max_cache_age", 0) >>

\* rules scoped to the target t1 by its name, by a pattern that matches it and
\* by a pattern that does not
RegexRules ==
    {Rule(e, "max_cache_age", v) :
        e \in {<<t1>>, <<(<<"~", "t", ".">>)>>, <<(<<"~", "t", "2">>)>>}, v \in {0, 1}}

\* the rule sequences of up to MaxRules of these rules, the three scopes in
\* every order, TwiceGlobal, two sequences with validity settings, and the
\* sequences of MaxRules of the RegexRules
LookupRuleSets ==
    UNION {[1..n -> LookupRules] : n \in 0..MaxRules}
        \cup [1..MaxRules -> RegexRules]
        \cup Orderings(ThreeScopes)
        \cup {TwiceGlobal}
        \cup {<< Rule(NoneExpr, "max_cache_age", 1), Rule(NoneExpr, "validity_period", 0) >>,
              << Rule(<<s1>>, "validity_state", 2), Rule(<<t1>>, "validity_period", 1),
                 Rule(NoneExpr, "validity_state", 1), Rule(NoneExpr, "max_cache_age", 1) >>}

\* reads of the payload files that the two sources store for t1, with every
\* rule sequence of LookupRuleSets
NextLookup ==
    \/ now < MaxRaceTime /\ Tick
    \/ AllQuiet /\ StoreCallTo(Sources, {t1}, {<< <<1>> >>})
    \/ AllQuiet /\ ReadCall(LookupRuleSets)
    \/ StoreStep
    \/ ReadStep

SpecLookup == Init /\ [][NextLookup]_vars

\* the least of a non-empty set of indexes
First(I) == CHOOSE i \in I : \A j \in I : i <= j

\* the rules of a sequence, by index, that name the key with a scope that is
\* the target: its name, or a pattern that matches it
TargetScoped(rules, T, key) ==
    {i \in DOMAIN rules :
        /\ rules[i][2] = key
        /\ rules[i][1] # NoneExpr
        /\ \/ rules[i][1][1] = T
           \/ rules[i][1][1][1] = "~" /\ re_match(Tail(rules[i][1][1]), T)}

SourceScoped(rules, S, key) ==
    {i \in DOMAIN rules : rules[i][2] = key /\ rules[i][1] = <<S>>}

GlobalScoped(rules, key) ==
    {i \in DOMAIN rules : rules[i][2] = key /\ rules[i][1] = NoneExpr}

\* the value the rule sequence gives the pair: << >> when no rule resolves
Resolved(rules, S, T, key) ==
    IF TargetScoped(rules, T, key) # {} THEN <<rules[First(TargetScoped(rules, T, key))][3]>>
    ELSE IF SourceScoped(rules, S, key) # {} THEN <<rules[First(SourceScoped(rules, S, key))][3]>>
    ELSE IF GlobalScoped(rules, key) # {} THEN <<rules[First(GlobalScoped(rules, key))][3]>>
    ELSE << >>

\* a read is past the construction of its settings map
MapBuilt == rd.pc # "idle" /\ rd.target # NoHost

\* C22: the lookup of a key for a listed source and the target gives the value
\* of the first target-scoped rule if there is one, otherwise of the first
\* source-scoped rule if there is one, otherwise of the first global rule,
\* wherever in the sequence these rules stand
C22_ScopePrecedence ==
    MapBuilt
    => \A S \in Range(rd.sources), key \in Keys :
        _match(rd.map, key, S, rd.target) = Resolved(rd.rules, S, rd.target, key)

\* the global rule first, the source-scoped rule second, the target-scoped
\* rule last, and the lookup gives the value of the target-scoped one
C22_Witness ==
    /\ MapBuilt
    /\ rd.rules = << Rule(NoneExpr, "max_cache_age", 1), Rule(<<s1>>, "max_cache_age", 1),
                     Rule(<<t1>>, "max_cache_age", 0) >>
    /\ s1 \in Range(rd.sources)
    /\ _match(rd.map, "max_cache_age", s1, rd.target) = <<0>>

\* no rule of the read resolves the key for the pair of source S
Unresolved(S, key) == Resolved(rd.rules, S, rd.target, key) = << >>

\* the pairs a sweep has listed, as <<folder, source>>
ListedPairs(c) ==
    UNION {{<<x.folder, S>> : S \in Range(x.sources)} : x \in Range(cl[c].settings)}

\* C23: for a pair that no rule resolves validity_period is None, which is not
\* 0, and validity_state is 0, and the inspection goes on to its record with no
\* error; when no rule resolves max_cache_age for a pair whose payload file is
\* there the inspection ends with the error and the read returns nothing, and a
\* sweep that has listed such a pair ends with the error and deletes nothing
C23_UnresolvedSettings ==
    /\ [](MapBuilt
            => \A S \in Range(rd.sources) :
                /\ Unresolved(S, "validity_period")
                    => /\ validity_period(rd.map, S, rd.target) = << >>
                       /\ validity_period(rd.map, S, rd.target) # <<0>>
                /\ Unresolved(S, "validity_state") => validity_state(rd.map, S, rd.target) = 0)
    /\ [][(rd.pc \in {"stat_status", "stat_payload"} /\ rd' # rd) => rd'.pc # "error"]_vars
    /\ [][(rd.pc = "age" /\ rd' # rd /\ payload[rd.target][rd.sources[rd.idx]].exists)
            => (rd'.pc = "error" <=> Unresolved(rd.sources[rd.idx], "max_cache_age"))]_vars
    /\ [][(rd.pc = "error" /\ rd' # rd) => rd' = IdleReader]_vars
    /\ [][\A c \in Cleaners :
            (cl[c].pc = "list_status" /\ cl'[c] # cl[c])
            => /\ cl'[c].pc = "error"
                    <=> \E p \in ListedPairs(c) :
                            Resolved(cl[c].rules, p[2], p[1], "max_cache_age") = << >>
               /\ fsvars' = fsvars]_vars
    /\ [][\A c \in Cleaners :
            (cl[c].pc = "error" /\ cl'[c] # cl[c])
            => cl'[c] = IdleCleaner /\ fsvars' = fsvars]_vars

\* the inspection of a payload file has ended with the error under rules that
\* resolve validity_period and no max_cache_age
C23_Witness ==
    /\ rd.pc = "error"
    /\ rd.rules = RulesNoAge
    /\ payload[rd.target][rd.sources[rd.idx]].exists
    /\ Unresolved(rd.sources[rd.idx], "max_cache_age")
    /\ ~Unresolved(rd.sources[rd.idx], "validity_period")

----------------------------------------------------------------------------
(* The status file while a store is in flight *)

\* a store, a read and a sweep interleave between their filesystem calls
NextTmp ==
    \/ now < MaxRaceTime /\ Tick
    \/ StoreCallTo({s1}, {t1}, {<< <<1>> >>})
    \/ ReadCall({RulesGrace})
    \/ CleanCall({"c1"}, {RulesPurge})
    \/ StoreStep
    \/ ReadStep
    \/ CleanStep

SpecTmp == Init /\ [][NextTmp]_vars

\* writer w is within a store of a non-empty mapping
StoreInFlight(w) == wr[w].pc \in {"write", "tmp", "utime", "rename"}

\* the step of writer w that renames the temporary file
RenameStep(w) == wr[w].pc = "rename" /\ wr'[w].pc # "rename"

\* C24: while a store of source S is in flight the status file of S is what it
\* was, or removed, at every step but the rename, which puts the new status
\* file with the times of the temporary file in place and leaves no temporary
\* file; the temporary file has a name that starts with a dot, is no name that
\* a sweep lists as a status file, and is no source that a read or a sweep
\* lists
C24_StatusFileAtomic ==
    /\ [][\A w \in DOMAIN wr :
            StoreInFlight(w)
            => IF RenameStep(w)
               THEN /\ tmp[w].exists
                    /\ source_status'[wr[w].src] = tmp[w]
                    /\ ~tmp'[w].exists
               ELSE source_status'[wr[w].src] \in {source_status[wr[w].src], NoFile}]_vars
    /\ [](\A w \in DOMAIN wr : tmp[w].exists => TmpName(wr[w].src, w)[1] = ".")
    /\ [](\A c \in Cleaners :
            /\ Range(cl[c].sfiles) \subseteq Sources
            /\ \A x \in Range(cl[c].settings) : Range(x.sources) \subseteq Sources
            /\ \A n \in cl[c].dotfiles : n[1] = ".")
    /\ [][\A c \in Cleaners :
            (cl[c].pc = "list_status" /\ cl'[c].pc = "stat_status")
            => /\ Range(cl'[c].sfiles) = {S \in Sources : source_status[S].exists}
               /\ cl'[c].dotfiles = {TmpName(wr[w].src, w) : w \in {x \in DOMAIN tmp : tmp[x].exists}}]_vars
    /\ [](Range(rd.sources) \subseteq Sources)

\* a sweep has listed the status file of an earlier store and has passed over
\* the temporary file of the store in flight
C24_Witness ==
    \E c \in Cleaners, w \in DOMAIN wr :
        /\ StoreInFlight(w)
        /\ tmp[w].exists
        /\ cl[c].dotfiles = {TmpName(wr[w].src, w)}
        /\ cl[c].sfiles = <<wr[w].src>>
        /\ source_status[wr[w].src].exists
        /\ source_status[wr[w].src].mtime < tmp[w].mtime

----------------------------------------------------------------------------
(* The record of the inspector as a function of the clock, the two mtimes  *)
(* and the resolved settings                                               *)

\* the branch that the times and the settings of record i call for
BranchByTimes(i) ==
    IF ~InfoPayload(i).exists THEN "missing"
    ELSE IF InfoAge(i) > InfoMaxCacheAge(i)[1] * Res THEN "too old"
    ELSE IF \/ ~InfoStatus(i).exists
            \/ StatSeconds(InfoStatus(i)) > StatSeconds(InfoPayload(i))
    THEN "abandoned"
    ELSE "success"

ValidByTimes(i) ==
    \/ BranchByTimes(i) = "success"
    \/ /\ BranchByTimes(i) = "abandoned"
       /\ InfoValidityPeriod(i) # << >>
       /\ InfoValidityPeriod(i)[1] * Res - InfoAge(i) > 0

StatusByTimes(i) ==
    IF BranchByTimes(i) = "abandoned" /\ ValidByTimes(i) THEN InfoValidityState(i) ELSE 0

\* the branch that record i was made in, by its message
BranchTaken(i) ==
    IF rd.infos[i].message = <<Txt("Piggyback file is missing")>> THEN "missing"
    ELSE IF rd.infos[i].message[1] = Txt("Piggyback file too old (age: ") THEN "too old"
    ELSE IF rd.infos[i].message[1] = Txt("Piggyback data not updated by source '")
    THEN "abandoned"
    ELSE IF rd.infos[i].message[1] = Txt("Successfully processed from source '")
    THEN "success"
    ELSE "other"

\* C25: the branch, the validity flag and the status of every record are those
\* that the clock, the mtime of the payload file, the mtime or absence of the
\* status file and the resolved settings call for, whatever bytes the payload
\* file holds
C25_DependsOnTimesOnly ==
    \A i \in InfoIndexes :
        /\ BranchTaken(i) = BranchByTimes(i)
        /\ rd.infos[i].valid = ValidByTimes(i)
        /\ rd.infos[i].status = StatusByTimes(i)

\* a record of a payload file that the last store overwrote with other bytes
\* and the same times: its mtime and the status file are those of the store
\* before
C25_Witness ==
    \E i \in InfoIndexes :
        /\ ReadsLastStore(i)
        /\ rd.target \in lastOp.over
        /\ lastOp.before = InfoStatus(i)
        /\ InfoPayload(i).mtime = lastOp.before.mtime
        /\ rd.infos[i].valid

----------------------------------------------------------------------------
(* The payload pass of a sweep against the inspector at the same instant *)

\* lines 229-276 as one evaluation: the record of a payload file of the given
\* age, with the two stat results of line 302, under the settings map m
_get_piggyback_processed_file_info(S, T, m, file_age, status_stat, piggyback_stat) ==
    IF ~piggyback_stat.exists THEN InfoMissing(S, T)
    ELSE IF FileTooOld(file_age, max_cache_age(m, S, T)[1])
    THEN InfoTooOld(S, T, file_age, max_cache_age(m, S, T)[1])
    ELSE InfoAfterAbandonTest(S, T, file_age, m,
            _is_piggybacked_host_abandoned(status_stat, piggyback_stat))

\* the record that the inspector makes of the file of the last log entry of
\* sweep c in the current state, under the settings map of the sweep
InspectorOnLast(c) ==
    LET e == cl[c].log[Len(cl[c].log)]
    IN  _get_piggyback_processed_file_info(e.source, e.folder, LogMap(c, Len(cl[c].log)),
            now - payload[e.folder][e.source].mtime,
            source_status[e.source], payload[e.folder][e.source])

\* sweep c is about to unlink the file that it has stat'ed at this tick
UnlinksNow(c) ==
    /\ cl[c].pc = "unlink_payload"
    /\ LogFile(c, Len(cl[c].log)).exists
    /\ now - LogFile(c, Len(cl[c].log)).mtime = cl[c].log[Len(cl[c].log)].age

\* C26: with one operation at a time the records of a read are those of the
\* inspector's evaluation on the files as they are, and at the tick at which a
\* sweep decides to unlink a payload file that evaluation, under the rules of
\* the sweep, gives a record that is not valid
C26_SweepSparesValid ==
    /\ \A i \in InfoIndexes :
        rd.infos[i] = _get_piggyback_processed_file_info(InfoSource(i), rd.target, rd.map,
                            InfoAge(i), InfoStatus(i), InfoPayload(i))
    /\ \A c \in Cleaners : UnlinksNow(c) => ~InspectorOnLast(c).valid

\* a sweep is about to unlink a payload file that is past max_cache_age and
\* past a configured validity_period, and another file of its log, valid for
\* the inspector, is in place
C26_Witness ==
    \E c \in Cleaners :
        /\ UnlinksNow(c)
        /\ LogValidityPeriod(c, Len(cl[c].log)) > 0
        /\ ~InspectorOnLast(c).valid
        /\ \E k \in LogIndexes(c) :
            /\ cl[c].log[k].keep
            /\ LogFile(c, k).exists
            /\ now - LogFile(c, k).mtime = cl[c].log[k].age
            /\ _get_piggyback_processed_file_info(cl[c].log[k].source, cl[c].log[k].folder,
                    LogMap(c, k), cl[c].log[k].age, source_status[cl[c].log[k].source],
                    LogFile(c, k)).valid

----------------------------------------------------------------------------
(* The messages of the records *)

\* C27: a PiggybackFileInfo with an empty message is the ValueError; every
\* record of the inspector and every entry of the read carries a message that
\* is not empty, and a read ends with an error only when the inspection of a
\* payload file finds no max_cache_age
C27_MessageNeverEmpty ==
    /\ [](\A S \in Sources, T \in Targets, valid \in BOOLEAN, status \in 0..2 :
            PiggybackFileInfo(S, _get_piggybacked_file_path(S, T), valid, << >>, status)
                = ValueError)
    /\ [](\A i \in InfoIndexes : rd.infos[i] # ValueError /\ rd.infos[i].message # << >>)
    /\ [](\A j \in 1..Len(rd.data) :
            rd.data[j].info # ValueError /\ rd.data[j].info.message # << >>)
    /\ [][(rd.pc # "error" /\ rd'.pc = "error")
            => /\ rd.pc = "age"
               /\ payload[rd.target][rd.sources[rd.idx]].exists
               /\ max_cache_age(rd.map, rd.sources[rd.idx], rd.target) = KeyError]_vars

\* a read has returned the entry of a file that was too old and the entry of
\* a file that was gone at the read of its bytes
C27_Witness ==
    /\ rd.pc = "done"
    /\ \E j, k \in 1..Len(rd.data) :
        /\ rd.data[j].info.message[1] = Txt("Piggyback file too old (age: ")
        /\ rd.data[k].info.message[1] = Txt("Cannot read piggyback raw data from source '")

----------------------------------------------------------------------------
(* has_piggyback_raw_data and get_source_and_piggyback_hosts *)

\* the call: the listing of the folder and the settings map, as for a read
has_piggyback_raw_data(piggybacked_hostname, time_settings, listing) ==
    /\ rd.pc = "idle"
    /\ listing \in Orderings(get_source_hostnames(piggybacked_hostname))
    /\ rd' = [IdleReader EXCEPT
                !.mode = "has",
                !.pc = IF listing = << >> THEN "done" ELSE "age",
                !.target = piggybacked_hostname,
                !.rules = time_settings,
                !.sources = listing,
                !.map = _TimeSettingsMap(Range(listing), piggybacked_hostname, time_settings),
                !.idx = 1]
    /\ UNCHANGED <<now, nsec, fsvars, wr, cl, lastOp, aged>>

\* the call: the listing of piggyback_dir, folders in the order iterdir() gives
get_source_and_piggyback_hosts(time_settings, folders) ==
    /\ rd.pc = "idle"
    /\ folders \in Orderings(_get_piggybacked_host_folders)
    /\ rd' = [IdleReader EXCEPT
                !.mode = "pairs",
                !.pc = IF folders = << >> THEN "done" ELSE "list_folder",
                !.rules = time_settings,
                !.folders = folders]
    /\ UNCHANGED <<now, nsec, fsvars, wr, cl, lastOp, aged>>

\* lines 126-130: the next folder, the listing of its sources and its settings map
hosts_list_folder(listing) ==
    LET T == Head(rd.folders)
    IN  /\ rd.pc = "list_folder"
        /\ listing \in Orderings(get_source_hostnames(T))
        /\ rd' = [rd EXCEPT
                    !.target = T,
                    !.sources = listing,
                    !.map = _TimeSettingsMap(Range(listing), T, rd.rules),
                    !.idx = 1,
                    !.infos = << >>,
                    !.ats = << >>,
                    !.folders = Tail(rd.folders),
                    !.pc = IF listing # << >> THEN "age"
                           ELSE IF Tail(rd.folders) = << >> THEN "done" ELSE "list_folder"]
        /\ UNCHANGED <<now, nsec, fsvars, wr, cl, lastOp, aged>>

\* a variant that yields the pair of every record
RECURSIVE YieldedPairs_All(_, _)
YieldedPairs_All(infos, T) ==
    IF infos = << >> THEN << >>
    ELSE << <<Head(infos).source, T>> >> \o YieldedPairs_All(Tail(infos), T)

\* lines 131-133: the pairs of the records that are valid, in their order
RECURSIVE YieldedPairs(_, _)
YieldedPairs(infos, T) ==
    IF infos = << >> THEN << >>
    ELSE (IF Head(infos).valid THEN << <<Head(infos).source, T>> >> ELSE << >>)
            \o YieldedPairs(Tail(infos), T)

\* line 140: any(fi.valid for fi in ...)
AnyValid(infos) == \E i \in 1..Len(infos) : infos[i].valid

\* the records of one folder are looked through; checked keeps, for each, the
\* pair, the valid flag and the clock of its age computation
hosts_collect ==
    /\ rd.pc = "collect"
    /\ rd' = IF rd.mode = "has"
             THEN [rd EXCEPT !.result = AnyValid(rd.infos), !.pc = "done"]
             ELSE [rd EXCEPT
                    !.pairs = @ \o YieldedPairs(rd.infos, rd.target),
                    !.checked = @ \o [i \in 1..Len(rd.infos) |->
                                        [source |-> rd.infos[i].source, target |-> rd.target,
                                         valid |-> rd.infos[i].valid, at |-> rd.ats[i]]],
                    !.pc = IF rd.folders = << >> THEN "done" ELSE "list_folder"]
    /\ UNCHANGED <<now, nsec, fsvars, wr, cl, lastOp, aged>>

HostsCall(rulesets) ==
    \E rules \in rulesets :
        \/ \E T \in Targets, listing \in UNION {Orderings(F) : F \in SUBSET Sources} :
                has_piggyback_raw_data(T, rules, listing)
        \/ \E folders \in UNION {Orderings(F) : F \in SUBSET Targets} :
                get_source_and_piggyback_hosts(rules, folders)

\* the steps of the inspector, and of the two queries around it
HostsStep ==
    \/ \E listing \in UNION {Orderings(F) : F \in SUBSET Sources} : hosts_list_folder(listing)
    \/ inspect_file_age
    \/ inspect_stat_status
    \/ inspect_stat_payload
    \/ hosts_collect
    \/ read_return

\* the two queries and stores of both sources, one operation at a time
NextHosts ==
    \/ Tick
    \/ AllQuiet /\ StoreCallTo(Sources, Targets, {<< <<1>> >>})
    \/ AllQuiet /\ HostsCall({RulesAge, RulesGrace, RulesNoAge})
    \/ StoreStep
    \/ HostsStep

SpecHosts == Init /\ [][NextHosts]_vars

\* the pairs <<source, target>> of the payload files
PayloadPairs == {p \in Sources \X Targets : p[2] \in dirs /\ payload[p[2]][p[1]].exists}

\* the valid flag of the inspector's evaluation of the payload file of (S, T)
\* with the clock at the given tick, under the rules of the query
ValidAt(S, T, at) ==
    _get_piggyback_processed_file_info(S, T,
        _TimeSettingsMap(get_source_hostnames(T), T, rd.rules),
        at - payload[T][S].mtime, source_status[S], payload[T][S]).valid

CheckedPair(c) == <<c.source, c.target>>

\* C28: a get_source_and_piggyback_hosts that returns has inspected every
\* payload file once and has yielded, once each, the pairs of those that the
\* inspector's evaluation finds valid and no other pair; a
\* has_piggyback_raw_data that returns has inspected every source of the
\* target and gives True exactly when the evaluation finds one of them valid
C28_QueriesFollowInspector ==
    /\ (rd.pc = "done" /\ rd.mode = "pairs")
        => /\ {CheckedPair(c) : c \in Range(rd.checked)} = PayloadPairs
           /\ Len(rd.checked) = Cardinality(PayloadPairs)
           /\ \A c \in Range(rd.checked) : c.valid = ValidAt(c.source, c.target, c.at)
           /\ Range(rd.pairs) = {CheckedPair(c) : c \in {x \in Range(rd.checked) : x.valid}}
           /\ Len(rd.pairs) = Cardinality(Range(rd.pairs))
    /\ (rd.pc = "done" /\ rd.mode = "has")
        => /\ Range(SourcesOf(rd.infos)) = get_source_hostnames(rd.target)
           /\ Len(rd.infos) = Cardinality(get_source_hostnames(rd.target))
           /\ rd.result <=> \E i \in InfoIndexes : ValidAt(InfoSource(i), rd.target, rd.ats[i])

\* of the two payload files of one target the query has yielded the pair of
\* the valid one and has left out the pair of the other
C28_Witness ==
    /\ rd.pc = "done"
    /\ rd.mode = "pairs"
    /\ \E T \in Targets :
        /\ <<s1, T>> \in PayloadPairs
        /\ <<s2, T>> \in PayloadPairs
        /\ \E p, q \in {<<s1, T>>, <<s2, T>>} :
            p \in Range(rd.pairs) /\ q \notin Range(rd.pairs)

----------------------------------------------------------------------------
(* Termination of the operations under fair scheduling *)

\* the processes within a call
Busy == InFlight \cup {"rd" : x \in {rd.pc} \ {"idle"}}

\* a store, a read and a sweep, of which any two interleave between their
\* filesystem calls
NextFair ==
    \/ now < MaxRaceTime /\ Tick
    \/ Cardinality(Busy) <= 1 /\ StoreCallTo({s1}, {t1}, {<< <<1>> >>})
    \/ Cardinality(Busy) <= 1 /\ ReadCall({RulesGrace})
    \/ Cardinality(Busy) <= 1 /\ CleanCall({"c1"}, {RulesPurge})
    \/ StoreStep
    \/ ReadStep
    \/ CleanStep

\* every process that is within a call gets to take its next step
SpecFair ==
    /\ Init
    /\ [][NextFair]_vars
    /\ WF_vars(StoreStep)
    /\ WF_vars(ReadStep)
    /\ WF_vars(CleanStep)

\* C29: every store that has been called comes to its end, every read comes to
\* its end or to its error, and so does every sweep, whatever the other
\* processes do meanwhile
C29_OperationsTerminate ==
    /\ \A w \in {"w1"} : (wr[w].pc # "idle") ~> (wr[w].pc = "done")
    /\ (rd.pc # "idle") ~> (rd.pc \in {"done", "error"})
    /\ \A c \in Cleaners : (cl[c].pc # "idle") ~> (cl[c].pc \in {"done", "error"})

\* a sweep has come to its end beside a store that is in flight and has put
\* a file back into the folder the sweep had emptied
C29_Witness ==
    \E c \in Cleaners, w \in DOMAIN wr :
        /\ cl[c].pc = "done"
        /\ "writer" \in cl[c].beside
        /\ wr[w].pc # "idle"
        /\ \E k \in LogIndexes(c) : ~cl[c].log[k].keep /\ LogFile(c, k).exists
        /\ cl[c].removed = << >>

\* the scopes under which the map of the read may hold a value: none, the
\* listed sources and the target
LiteralScopes == {NoneExpr} \cup {<<S>> : S \in Range(rd.sources)} \cup {<<rd.target>>}

\* the rules of the read, by index, that name the key and register under scope e
RegisteredUnder(e, key) ==
    IF e = <<rd.target>> THEN TargetScoped(rd.rules, rd.target, key)
    ELSE {i \in DOMAIN rd.rules : rd.rules[i][2] = key /\ rd.rules[i][1] = e}

\* the scope of the rule is an exact name that is neither a listed source nor
\* the target
OtherName(rule) ==
    /\ rule[1] # NoneExpr
    /\ rule[1][1] = << >> \/ rule[1][1][1] # "~"
    /\ rule[1] \notin LiteralScopes

NotOtherName(rule) == ~OtherName(rule)

\* C30: the map of a read holds a value for (scope, key) exactly when a rule of
\* the sequence registers under it, the scope being none, a listed source or
\* the target, and the value is that of the first such rule; the rules scoped
\* to any other exact name leave the map, and so every lookup, as it is
\* without them
C30_FirstRuleWinsPerScope ==
    MapBuilt
    => /\ \A k \in DOMAIN rd.map : k[1] \in LiteralScopes /\ k[2] \in Keys
       /\ \A e \in LiteralScopes, key \in Keys :
            /\ <<e, key>> \in DOMAIN rd.map <=> RegisteredUnder(e, key) # {}
            /\ RegisteredUnder(e, key) # {}
                => rd.map[<<e, key>>] = rd.rules[First(RegisteredUnder(e, key))][3]
       /\ rd.map = _TimeSettingsMap(Range(rd.sources), rd.target,
                                    SelectSeq(rd.rules, NotOtherName))

\* of two global rules of one key the first has given the value, and the rule
\* scoped to s2, which is no source of the target, has registered nothing
C30_Witness ==
    /\ MapBuilt
    /\ rd.rules = TwiceGlobal
    /\ rd.sources = <<s1>>
    /\ OtherName(rd.rules[1])
    /\ DOMAIN rd.map = {<<NoneExpr, "max_cache_age">>}
    /\ rd.map[<<NoneExpr, "max_cache_age">>] = 1

----------------------------------------------------------------------------
(* Patterns: the rules whose scope starts with "~" *)

IsRegex(rule) == rule[1] # NoneExpr /\ rule[1][1] # << >> /\ rule[1][1][1] = "~"

\* the rule sequence with every rule of a pattern that matches T replaced by
\* the rule of the same key and value scoped to the name T, and every rule of
\* a pattern that does not match T left out
RECURSIVE AsExactTarget(_, _)
AsExactTarget(rules, T) ==
    IF rules = << >> THEN << >>
    ELSE LET r == Head(rules)
         IN  IF ~IsRegex(r) \/ r[1][1] = T THEN <<r>> \o AsExactTarget(Tail(rules), T)
             ELSE IF re_match(Tail(r[1][1]), T)
             THEN <<Rule(<<T>>, r[2], r[3])>> \o AsExactTarget(Tail(rules), T)
             ELSE AsExactTarget(Tail(rules), T)

\* C31: the map of a read is the map of the rule sequence in which every
\* pattern rule that matches the target stands as a rule scoped to the target's
\* name and every pattern rule that does not match is left out; so of an
\* exact-target rule and a matching pattern rule of one key, or of two matching
\* pattern rules, the first in the sequence gives the value, and no key of the
\* map is a pattern
C31_RegexAsExactTarget ==
    MapBuilt
    => /\ rd.map = _TimeSettingsMap(Range(rd.sources), rd.target,
                                    AsExactTarget(rd.rules, rd.target))
       /\ \A k \in DOMAIN rd.map : k[1] = NoneExpr \/ k[1][1] \in Sources \cup Targets
       /\ \A key \in Keys :
            TargetScoped(rd.rules, rd.target, key) # {}
            => rd.map[<<(<<rd.target>>), key>>]
                = rd.rules[First(TargetScoped(rd.rules, rd.target, key))][3]

\* a matching pattern rule stands before an exact-target rule of the same key
\* and has given the value
C31_Witness ==
    /\ MapBuilt
    /\ rd.target = t1
    /\ rd.rules = << Rule(<<(<<"~", "t", ".">>)>>, "max_cache_age", 1),
                     Rule(<<t1>>, "max_cache_age", 0) >>
    /\ rd.sources # << >>
    /\ rd.map = (<<(<<t1>>), "max_cache_age">> :> 1)

----------------------------------------------------------------------------
(* The timestamps a store leaves, with a clock that is finer than st_mtime *)

\* stores and reads, one operation at a time, the clock advancing by ticks and
\* within a tick
NextUtime ==
    \/ Tick
    \/ ClockPart
    \/ AllQuiet /\ StoreCall({s1}, {<< <<1>> >>})
    \/ AllQuiet /\ ReadCall({RulesGrace})
    \/ StoreStep
    \/ ReadStep

SpecUtime == Init /\ [][NextUtime]_vars

\* the store of a non-empty mapping by source S has put its status file in
\* place, and no store has been called since
StoreCompleted(S) ==
    /\ \A w \in DOMAIN wr : wr[w].pc \in {"idle", "done"}
    /\ lastOp.op = "store"
    /\ lastOp.src = S
    /\ DOMAIN lastOp.batch # {}

\* C32 as stated: after a non-empty store every payload file of the mapping
\* has the timestamp of the new status file
C32_AsStated ==
    \A S \in Sources :
        StoreCompleted(S)
        => \A T \in DOMAIN lastOp.batch :
            /\ payload[T][S].exists
            /\ source_status[S].exists
            /\ payload[T][S].mtime = source_status[S].mtime
            /\ payload[T][S].nsec = source_status[S].nsec

\* C32 amended: after a non-empty store every payload file of the mapping has
\* the st_mtime of the new status file, the part of the timestamp that
\* st_mtime does not hold being lost, and so the whole second of the status
\* file, for which the abandonment test does not find the status file newer
C32_StatusTimesApplied ==
    \A S \in Sources :
        StoreCompleted(S)
        => \A T \in DOMAIN lastOp.batch :
            /\ payload[T][S].exists
            /\ source_status[S].exists
            /\ st_mtime(payload[T][S]) = st_mtime(source_status[S])
            /\ payload[T][S].nsec = 0
            /\ ~_is_piggybacked_host_abandoned(source_status[S], payload[T][S])

\* a store of two targets has returned; its status file was created within a
\* tick, a tick after the first payload file was written
C32_Witness ==
    /\ StoreCompleted(s1)
    /\ AllQuiet
    /\ DOMAIN lastOp.batch = Targets
    /\ source_status[s1].nsec = 1
    /\ source_status[s1].mtime = 1
    /\ \A T \in Targets : payload[T][s1].mtime = 1 /\ payload[T][s1].nsec = 0

----------------------------------------------------------------------------
(* A store whose payload files a sweep removes before their times are set *)

\* the step of writer w that calls os.utime for the next payload file
UtimeStep(w) == wr[w].pc = "utime" /\ wr'[w] # wr[w]

\* C33: os.utime of a payload file that is gone changes no file and goes on to
\* the next payload file or, after the last, to the rename; os.utime of a file
\* in place gives it the times of the temporary file; from the pending rename on
\* every payload file of the mapping that the writer did not pass over has
\* these times if it is still there; the rename puts the temporary file in
\* place as the status file, and the call returns
C33_UtimeSkipsVanished ==
    /\ [][\A w \in DOMAIN wr :
            UtimeStep(w)
            => LET T == Head(wr[w].ut)
                   S == wr[w].src
               IN  /\ wr'[w].ut = Tail(wr[w].ut)
                   /\ wr'[w].pc = IF Tail(wr[w].ut) = << >> THEN "rename" ELSE "utime"
                   /\ IF payload[T][S].exists
                      THEN /\ payload'[T][S].exists
                           /\ st_mtime(payload'[T][S]) = wr[w].times
                           /\ wr'[w].skipped = wr[w].skipped
                      ELSE /\ payload' = payload
                           /\ wr'[w].skipped = wr[w].skipped \cup {T}
                   /\ UNCHANGED <<source_status, tmp>>]_vars
    /\ [](\A w \in DOMAIN wr :
            /\ wr[w].pc \in {"idle", "remove_status", "write", "tmp", "utime", "rename", "done"}
            /\ wr[w].pc \in {"rename", "done"}
                => \A T \in Range(wr[w].paths) \ wr[w].skipped :
                    payload[T][wr[w].src].exists
                    => st_mtime(payload[T][wr[w].src]) = wr[w].times)
    /\ [][\A w \in DOMAIN wr :
            (wr[w].pc = "rename" /\ wr'[w] # wr[w])
            => /\ wr'[w].pc = "done"
               /\ source_status'[wr[w].src].exists
               /\ st_mtime(source_status'[wr[w].src]) = wr[w].times]_vars

\* the writer has passed over the first payload file of its mapping, which a
\* sweep had removed, has set the times of the second a tick after it wrote
\* it, and has put the status file in place
C33_Witness ==
    \E w \in DOMAIN wr :
        /\ wr[w].pc = "done"
        /\ wr[w].paths = <<t1, t2>>
        /\ wr[w].skipped = {t1}
        /\ ~payload[t1][wr[w].src].exists
        /\ payload[t2][wr[w].src].exists
        /\ payload[t2][wr[w].src].mtime = wr[w].times
        /\ wr[w].times = 1
        /\ source_status[wr[w].src].exists
        /\ source_status[wr[w].src].mtime = wr[w].times
        /\ \E c \in Cleaners : \E k \in LogIndexes(c) :
            /\ cl[c].log[k].folder = t1
            /\ ~cl[c].log[k].keep

----------------------------------------------------------------------------
(* The age that a sweep has checked against the file that it unlinks *)

\* sweep c unlinks the payload file of target T and source S in this step
UnlinksPayload(c, T, S) ==
    /\ cl[c].pc = "unlink_payload"
    /\ cl[c].settings[cl[c].fi].folder = T
    /\ cl[c].settings[cl[c].fi].sources[cl[c].si] = S
    /\ payload[T][S].exists
    /\ ~payload'[T][S].exists

\* sweep c unlinks the status file of source S in this step
UnlinksStatus(c, S) ==
    /\ cl[c].pc = "unlink_status"
    /\ Head(cl[c].sfiles) = S
    /\ source_status[S].exists
    /\ ~source_status'[S].exists

\* C34: beside a writer, a payload file that a sweep unlinks is, at the unlink,
\* older than the max_cache_age and the validity_period that the sweep holds
\* for it, and a status file that a sweep unlinks is older than the greatest
\* max_cache_age of its source
C34_UnlinkPastRetention ==
    [][\A c \in Cleaners :
        /\ \A T \in Targets, S \in Sources :
            UnlinksPayload(c, T, S)
            => ~StillNeeded(now - payload[T][S].mtime,
                            LogMaxCacheAge(c, Len(cl[c].log))[1],
                            LogValidityPeriod(c, Len(cl[c].log)))
        /\ \A S \in Sources :
            UnlinksStatus(c, S)
            => StatusFileTooOld(cl[c].maxage, S, now - source_status[S].mtime)]_vars

----------------------------------------------------------------------------
(* Two stores of one source beside each other *)

\* two processes that call store_piggyback_raw_data
InitTwoWriters ==
    /\ now = 0
    /\ nsec = 0
    /\ dirs = {}
    /\ payload = [T \in Targets |-> [S \in Sources |-> NoFile]]
    /\ source_status = [S \in Sources |-> NoFile]
    /\ tmp = [w \in {"w1", "w2"} |-> NoFile]
    /\ wr = [w \in {"w1", "w2"} |-> IdleWriter]
    /\ rd = IdleReader
    /\ cl = [c \in Cleaners |-> IdleCleaner]
    /\ lastOp = [op |-> "none"]
    /\ aged = {}

\* the steps of a store of a non-empty mapping
StoreMappingStep ==
    \E w \in DOMAIN wr :
        \/ store_save_bytes_to_file(w)
        \/ _store_status_file_of_tmp(w)
        \/ _store_status_file_of_utime(w)
        \/ _store_status_file_of_rename(w)
        \/ store_return(w)

\* the two writers store a line of s1 for t1 and interleave between their
\* filesystem calls; a read starts when both are idle
NextTwoWriters ==
    \/ Tick
    \/ \E w \in DOMAIN wr :
        store_piggyback_raw_data(w, s1, [T \in {t1} |-> << <<1>> >>], <<t1>>)
    \/ WritersIdle /\ ReadCall({RulesGrace})
    \/ StoreMappingStep
    \/ WritersIdle /\ ReadStep

SpecTwoWriters == InitTwoWriters /\ [][NextTwoWriters]_vars

\* every writer has stored and has returned from its last call
AllReturned == \A w \in DOMAIN wr : wr[w].pc = "idle" /\ wr[w].calls >= 1

\* C35: after two interleaved stores of non-empty mappings with target T by
\* source S have both returned, the status file of S is not newer than the
\* payload file of (S, T), and a read does not report the pair as abandoned
C35_TwoStoresNotAbandoned ==
    AllReturned
    => /\ payload[t1][s1].exists
       /\ source_status[s1].exists
       /\ ~_is_piggybacked_host_abandoned(source_status[s1], payload[t1][s1])
       /\ \A i \in InfoIndexes : ~TookAbandonedBranch(i)

----------------------------------------------------------------------------
(* The status file against the payload files of its source, one operation  *)
(* at a time                                                               *)

\* the settings map that sweep c holds for folder T
FolderMap(c, T) == (CHOOSE x \in Range(cl[c].settings) : x.folder = T).map

\* the record of the inspector for (S, T) under the settings of sweep c, with
\* the status file st
InspectorUnder(c, S, T, st) ==
    _get_piggyback_processed_file_info(S, T, FolderMap(c, T), now - payload[T][S].mtime,
                                       st, payload[T][S])

\* C36: with one operation at a time, when none is in flight no payload file
\* of a source is newer than the status file of the source; when a sweep
\* unlinks the status file of S, every payload file of S is listed by the
\* sweep and older than the max_cache_age that the sweep holds for it, and the
\* record of the inspector for it is not valid with the status file and
\* without it
C36_StatusNotOlderThanPayload ==
    /\ [](AllQuiet
            => \A S \in Sources, T \in Targets :
                (source_status[S].exists /\ payload[T][S].exists)
                => st_mtime(payload[T][S]) <= st_mtime(source_status[S]))
    /\ [][\A c \in Cleaners, S \in Sources :
            UnlinksStatus(c, S)
            => \A T \in Targets :
                payload[T][S].exists
                => /\ \E x \in Range(cl[c].settings) : x.folder = T /\ S \in Range(x.sources)
                   /\ FileTooOld(now - payload[T][S].mtime,
                                 max_cache_age(FolderMap(c, T), S, T)[1])
                   /\ ~InspectorUnder(c, S, T, source_status[S]).valid
                   /\ ~InspectorUnder(c, S, T, source_status'[S]).valid]_vars

\* a sweep has removed the status file of s1 and has kept the two payload
\* files of s1, which are past max_cache_age and within validity_period
C36_Witness ==
    \E c \in Cleaners :
        /\ cl[c].pc = "done"
        /\ \E k \in SlogIndexes(c) : cl[c].slog[k].source = s1 /\ cl[c].slog[k].remove
        /\ ~source_status[s1].exists
        /\ \A T \in Targets :
            /\ payload[T][s1].exists
            /\ FileTooOld(now - payload[T][s1].mtime, max_cache_age(FolderMap(c, T), s1, T)[1])
            /\ now - payload[T][s1].mtime = cl[c].slog[1].age

----------------------------------------------------------------------------
(* The status of the records *)

\* the records of the inspector and of the entries of the read
Records == Range(rd.infos) \cup {rd.data[j].info : j \in DOMAIN rd.data}

\* the record carries the note of the remaining validity time
StillValidNote(r) == Len(r.message) > 3 /\ r.message[4] = Txt(" (still valid, ")

\* C37: a record that is not valid has status 0; a record with a status other
\* than 0 is valid, comes from the abandoned branch with the note of the
\* remaining validity time, and its status is the validity_state that resolves
\* for its source and the target
C37_StatusOnlyOnAbandonedValid ==
    \A r \in Records :
        /\ ~r.valid => r.status = 0
        /\ r.status # 0
            => /\ r.valid
               /\ r.message[1] = Txt("Piggyback data not updated by source '")
               /\ StillValidNote(r)
               /\ r.status = validity_state(rd.map, r.source, rd.target)

\* a read holds a record with validity_state 2 and an entry for a file that
\* was gone when it was read
C37_Witness ==
    /\ \E r \in Records : r.status = 2 /\ r.valid
    /\ \E r \in Records :
        /\ r.message[1] = Txt("Cannot read piggyback raw data from source '")
        /\ ~r.valid
        /\ r.status = 0

----------------------------------------------------------------------------
(* Whole seconds in the abandonment test, the age as it is in the others *)

\* the status file of record i is newer than the payload file, within the
\* same whole second
NewerWithinSecond(i) ==
    /\ InfoPayload(i).exists
    /\ InfoStatus(i).exists
    /\ st_mtime(InfoStatus(i)) > st_mtime(InfoPayload(i))
    /\ st_mtime(InfoStatus(i)) \div Res = st_mtime(InfoPayload(i)) \div Res

----------------------------------------------------------------------------
(* The files that a store leaves as they are *)

\* the call of writer w in this step: the one it is in, or the one it starts
CallOf(w) == IF wr[w].pc = "idle" THEN wr'[w] ELSE wr[w]

\* the record of the inspector for (S, T) under the rules, from the files
\* fp and fs
InspectorFor(rules, S, T, fp, fs) ==
    LET m == _TimeSettingsMap(get_source_hostnames(T), T, rules)
    IN  IF fp.exists /\ max_cache_age(m, S, T) = KeyError THEN KeyError
        ELSE _get_piggyback_processed_file_info(S, T, m, now - fp.mtime, fs, fp)

\* C39: a step of a store by source S with mapping B leaves every payload
\* file of S for a target that is not in B, and every payload file and the
\* status file of every other source, as it is, and with it the record of the
\* inspector for every pair of another source
C39_StoreFrame ==
    [][\A w \in DOMAIN wr :
        wr'[w] # wr[w]
        => LET S == CallOf(w).src
               B == CallOf(w).batch
           IN  /\ \A T \in Targets \ DOMAIN B : payload'[T][S] = payload[T][S]
               /\ \A S2 \in Sources \ {S} :
                    /\ source_status'[S2] = source_status[S2]
                    /\ \A T \in Targets :
                        /\ payload'[T][S2] = payload[T][S2]
                        /\ \A rules \in {RulesAge, RulesGrace} :
                            InspectorFor(rules, S2, T, payload'[T][S2], source_status'[S2])
                                = InspectorFor(rules, S2, T, payload[T][S2], source_status[S2])]_vars

\* s1 has stored for t1 a second after s2 stored for t1 and t2: the status
\* file and the two payload files of s2 have the times of the store of s2
C39_Witness ==
    /\ AllQuiet
    /\ lastOp.op = "store"
    /\ lastOp.src = s1
    /\ DOMAIN lastOp.batch = {t1}
    /\ source_status[s1].exists /\ source_status[s1].mtime = Res
    /\ payload[t1][s1].exists /\ payload[t1][s1].mtime = Res
    /\ ~payload[t2][s1].exists
    /\ source_status[s2].exists /\ source_status[s2].mtime = 0
    /\ \A T \in Targets : payload[T][s2].exists /\ payload[T][s2].mtime = 0

----------------------------------------------------------------------------
(* A sweep run twice at one instant *)

\* stores of the two sources and sweeps, one operation at a time; every sweep
\* of c1 that comes to its end is followed, before it returns and at the same
\* clock value, by a sweep of c2 with the same rules
NextTwice ==
    \/ AllQuiet /\ Tick
    \/ AllQuiet /\ StoreCall(Sources, {<< <<1>> >>})
    \/ AllQuiet /\ CleanCall({"c1"}, {RulesAge, RulesGrace, RulesTarget})
    \/ /\ cl["c1"].pc = "done"
       /\ \E folders \in UNION {Orderings(F) : F \in SUBSET Targets} :
            cleanup_piggyback_files("c2", cl["c1"].rules, folders)
    \/ StoreStep
    \/ /\ CleanStep
       /\ (cl["c1"].pc = "done" /\ cl'["c1"].pc = "idle") => cl["c2"].pc \in {"done", "error"}

SpecTwice == Init /\ [][NextTwice]_vars

\* sweep c2 runs, or has run, directly after the completed sweep of c1
SecondSweep == cl["c1"].pc = "done" /\ cl["c2"].pc # "idle"

\* the sweep has unlinked, or is about to unlink, a payload file of source S
DeletesPayloadOf(c, S) ==
    \E k \in LogIndexes(c) : cl[c].log[k].source = S /\ ~cl[c].log[k].keep

====
